---- MODULE Spec2Model ----
(***************************************************************************)
(* State-machine model of the envoy-wasm-error-pages filter: the plugin    *)
(* start-up (main.go OnPluginStart), the per-request httpContext handlers  *)
(* (OnHttpRequestHeaders, OnHttpResponseHeaders, OnHttpResponseBody) and   *)
(* the parts of internal/errorpages, internal/config and templates they    *)
(* call.  The proxy host is modelled at the interface the handlers use:    *)
(* header maps read and written through the proxywasm calls, a body that   *)
(* the host buffers while a handler answers Pause and forwards when it     *)
(* answers Continue.                                                       *)
(***************************************************************************)
EXTENDS Integers, Sequences, FiniteSets, TLC

\* ------------------------------------------------------------------ bounds

\* Most body events the host delivers for one response.
MaxChunks == 3

\* The http contexts (one per in-flight request) the host creates.
Requests == {"r1", "r2"}

\* ------------------------------------------------------------ host values

ActionContinue == "Continue"
ActionPause == "Pause"
NoAction == "none"

OnPluginStartStatusOK == "OK"
OnPluginStartStatusFailed == "Failed"

Nil == [nil |-> TRUE]

\* The bytes of the status texts the model uses (Go indexes a string by byte).
Bytes(s) ==
  CASE s = "200" -> <<"2", "0", "0">>
    [] s = "404" -> <<"4", "0", "4">>
    [] s = "503" -> <<"5", "0", "3">>
    [] s = "50" -> <<"5", "0">>
    [] s = "" -> <<>>

Digits == {"0", "1", "2", "3", "4", "5", "6", "7", "8", "9"}

DigitVal(c) ==
  CASE c = "0" -> 0 [] c = "1" -> 1 [] c = "2" -> 2 [] c = "3" -> 3
    [] c = "4" -> 4 [] c = "5" -> 5 [] c = "6" -> 6 [] c = "7" -> 7
    [] c = "8" -> 8 [] c = "9" -> 9

\* ------------------------------------------------- internal/errorpages

\* An IsErrorStatus that knows the 4xx class only.
IsErrorStatusBytes_ClientErrorsOnly(status) ==
  IF Len(status) # 3
  THEN FALSE
  ELSE status[1] = "4"

\* IsErrorStatus on the bytes of the status text: exactly three bytes, the
\* first '4' or '5'.
IsErrorStatusBytes(status) ==
  IF Len(status) # 3
  THEN FALSE
  ELSE status[1] = "4" \/ status[1] = "5"

\* An IsErrorStatus without the length check.
IsErrorStatus_AnyLength(status) ==
  Len(Bytes(status)) > 0 /\ Bytes(status)[1] \in {"4", "5"}

\* IsErrorStatus of a status text.
IsErrorStatus(status) == IsErrorStatusBytes(Bytes(status))

\* ----------------------------------------------------- internal/config

\* A line of config.yaml after TrimSpace: the prefix that decides its branch
\* and the trimmed text after the prefix.
ConfigLine(key, value) == [key |-> key, value |-> value]

RECURSIVE ParseLines(_, _)
ParseLines(lines, cfg) ==
  IF lines = <<>>
  THEN cfg
  ELSE LET line == Head(lines)
           c1 == IF line.key = "theme:"
                 THEN [cfg EXCEPT !.Theme = line.value]
                 ELSE cfg
           c2 == IF line.key = "show_details:"
                 THEN [c1 EXCEPT !.ShowDetails = (line.value = "true")]
                 ELSE c1
       IN IF line.key = "#" \/ line.key = ""
          THEN ParseLines(Tail(lines), cfg)
          ELSE ParseLines(Tail(lines), c2)

\* config.Parse: the defaults, then one pass over the lines; never an error.
Parse(yamlContent) ==
  [cfg |-> ParseLines(yamlContent, [Theme |-> "cats", ShowDetails |-> TRUE]),
   err |-> FALSE]

\* The config.yaml documents a build may embed.
DefaultYAML == <<>>

QuietYAML ==
  <<ConfigLine("#", " theme"), ConfigLine("theme:", "cats"),
    ConfigLine("show_details:", "false")>>

UnknownThemeYAML ==
  <<ConfigLine("theme:", "nope"), ConfigLine("", ""),
    ConfigLine("show_details:", "true")>>

SuffixedYAML == <<ConfigLine("other", "x: y"), ConfigLine("theme:", "cats.html")>>

\* ------------------------------------------------------------ templates

\* A template document of the embedded file system: its file name and what
\* text/template makes of it ("none": parses and executes).
Doc(file, fault) == [file |-> file, fault |-> fault]

\* The *.html files a build may embed.
GoodFiles == {Doc("cats.html", "none"), Doc("app-down.html", "none")}

BadCatsFiles == {Doc("cats.html", "parse"), Doc("app-down.html", "none")}

BadFallbackFiles == {Doc("app-down.html", "execute")}

NoFiles == {}

\* The builds: the config.yaml and the templates embedded together.
Builds ==
  { <<DefaultYAML, GoodFiles>>, <<QuietYAML, GoodFiles>>,
    <<QuietYAML, BadCatsFiles>>, <<UnknownThemeYAML, GoodFiles>>,
    <<SuffixedYAML, BadFallbackFiles>>, <<DefaultYAML, NoFiles>> }

HasHtmlSuffix(theme) == theme \in {"cats.html", "app-down.html"}

\* theme + ".html", for the theme names without the suffix that the configs use.
WithHtmlSuffix(theme) ==
  CASE theme = "cats" -> "cats.html"
    [] theme = "app-down" -> "app-down.html"
    [] theme = "nope" -> "nope.html"

\* templates.GetTemplate
GetTemplate(fs, theme) ==
  LET filename == IF ~HasHtmlSuffix(theme) THEN WithHtmlSuffix(theme) ELSE theme
      found == {d \in fs : d.file = filename}
  IN IF found = {}
     THEN [data |-> Nil, err |-> TRUE]
     ELSE [data |-> CHOOSE d \in found : TRUE, err |-> FALSE]

\* errorpages.NewWithTemplate: keeps the preprocessed text; never an error.
NewWithTemplate(templateBytes) ==
  [h |-> [templateText |-> [raw |-> templateBytes, preprocessed |-> TRUE]],
   err |-> FALSE]

\* errorpages.TemplateData as main.go builds it: the fields it does not
\* name keep their zero values.
TemplateData(code, showDetails, host, uri, xff, rid) ==
  [Code |-> code, Message |-> "", Description |-> "",
   ShowDetails |-> showDetails, Host |-> host, OriginalURI |-> uri,
   ForwardedFor |-> xff, RequestID |-> rid, NowUnix |-> 0,
   L10nEnabled |-> FALSE, L10nScript |-> ""]

\* getStatusMessage: the table of status messages.
messages ==
  (400 :> "Bad Request") @@ (401 :> "Unauthorized")
  @@ (402 :> "Payment Required") @@ (403 :> "Forbidden")
  @@ (404 :> "Not Found") @@ (405 :> "Method Not Allowed")
  @@ (406 :> "Not Acceptable") @@ (407 :> "Proxy Authentication Required")
  @@ (408 :> "Request Timeout") @@ (409 :> "Conflict") @@ (410 :> "Gone")
  @@ (411 :> "Length Required") @@ (412 :> "Precondition Failed")
  @@ (413 :> "Payload Too Large") @@ (414 :> "URI Too Long")
  @@ (415 :> "Unsupported Media Type") @@ (416 :> "Range Not Satisfiable")
  @@ (417 :> "Expectation Failed") @@ (418 :> "I'm a teapot")
  @@ (421 :> "Misdirected Request") @@ (422 :> "Unprocessable Entity")
  @@ (423 :> "Locked") @@ (424 :> "Failed Dependency") @@ (425 :> "Too Early")
  @@ (426 :> "Upgrade Required") @@ (428 :> "Precondition Required")
  @@ (429 :> "Too Many Requests")
  @@ (431 :> "Request Header Fields Too Large")
  @@ (451 :> "Unavailable For Legal Reasons")
  @@ (500 :> "Internal Server Error") @@ (501 :> "Not Implemented")
  @@ (502 :> "Bad Gateway") @@ (503 :> "Service Unavailable")
  @@ (504 :> "Gateway Timeout") @@ (505 :> "HTTP Version Not Supported")
  @@ (506 :> "Variant Also Negotiates") @@ (507 :> "Insufficient Storage")
  @@ (508 :> "Loop Detected") @@ (510 :> "Not Extended")
  @@ (511 :> "Network Authentication Required")

getStatusMessage(code) ==
  IF code \in DOMAIN messages
  THEN messages[code]
  ELSE IF code >= 400 /\ code < 500 THEN "Client Error" ELSE "Server Error"

\* getStatusDescription: the table of descriptions.
descriptions ==
  (400 :> "The request could not be understood by the server due to malformed syntax.")
  @@ (401 :> "The request requires user authentication.")
  @@ (403 :> "The server understood the request, but is refusing to fulfill it.")
  @@ (404 :> "The requested resource could not be found.")
  @@ (405 :> "The method specified in the request is not allowed for the resource.")
  @@ (408 :> "The server timed out waiting for the request.")
  @@ (429 :> "Too many requests have been sent in a given amount of time.")
  @@ (500 :> "The server encountered an unexpected condition that prevented it from fulfilling the request.")
  @@ (502 :> "The server received an invalid response from the upstream server.")
  @@ (503 :> "The server is currently unable to handle the request due to temporary overloading or maintenance.")
  @@ (504 :> "The server did not receive a timely response from the upstream server.")

\* A getStatusDescription whose client range ends at 450.
getStatusDescription_ShortClientRange(code) ==
  IF code \in DOMAIN descriptions
  THEN descriptions[code]
  ELSE IF code >= 400 /\ code < 450
       THEN "An error occurred while processing your request."
       ELSE "The server encountered an error while processing your request."

getStatusDescription(code) ==
  IF code \in DOMAIN descriptions
  THEN descriptions[code]
  ELSE IF code >= 400 /\ code < 500
       THEN "An error occurred while processing your request."
       ELSE "The server encountered an error while processing your request."

\* A RenderErrorPage that always takes message and description from the
\* catalog.
FillDefaults_AlwaysCatalog(data, now) ==
  LET d1 == IF data.NowUnix = 0 THEN [data EXCEPT !.NowUnix = now] ELSE data
  IN [d1 EXCEPT !.Message = getStatusMessage(d1.Code),
                !.Description = getStatusDescription(d1.Code)]

\* RenderErrorPage: the defaults it writes into the caller's data.
FillDefaults(data, now) ==
  LET d1 == IF data.NowUnix = 0 THEN [data EXCEPT !.NowUnix = now] ELSE data
      d2 == IF d1.Message = ""
            THEN [d1 EXCEPT !.Message = getStatusMessage(d1.Code)]
            ELSE d1
  IN IF d2.Description = ""
     THEN [d2 EXCEPT !.Description = getStatusDescription(d2.Code)]
     ELSE d2

\* A RenderErrorPage that keeps a note of its last render in the handler.
RenderErrorPage_Caching(h, data, now) ==
  LET d == FillDefaults(data, now)
  IN IF h.templateText.raw.fault \in {"parse", "execute"}
     THEN [page |-> Nil, err |-> TRUE, h |-> h]
     ELSE [page |-> [template |-> h.templateText.raw.file, data |-> d],
           err |-> FALSE,
           h |-> [h EXCEPT !.templateText.preprocessed = FALSE]]

\* Handler.RenderErrorPage: the defaults, then parse and execute of the
\* handler's template text; the page is the template executed on the data.
\* h is the handler as the call leaves it: the method only reads it.
RenderErrorPage(h, data, now) ==
  LET d == FillDefaults(data, now)
  IN IF h.templateText.raw.fault = "parse"
     THEN [page |-> Nil, err |-> TRUE, h |-> h]
     ELSE IF h.templateText.raw.fault = "execute"
          THEN [page |-> Nil, err |-> TRUE, h |-> h]
          ELSE [page |-> [template |-> h.templateText.raw.file, data |-> d],
                err |-> FALSE, h |-> h]

\* time.Now().Unix() at the render.
NowValues == {1700000000, 1700000001}

\* ------------------------------------------------------- proxywasm calls

\* A request header map: a function from the names present to their values.
GetHttpRequestHeader(hs, name) ==
  IF name \in DOMAIN hs
  THEN [val |-> hs[name], err |-> FALSE]
  ELSE [val |-> "", err |-> TRUE]

\* A response header map: a sequence of <<name, value>>, a name possibly twice.
GetHttpResponseHeader(hs, name) ==
  LET hit == SelectSeq(hs, LAMBDA p : p[1] = name)
  IN IF hit = <<>>
     THEN [val |-> "", err |-> TRUE]
     ELSE [val |-> hit[1][2], err |-> FALSE]

RemoveHttpResponseHeader(hs, name) == SelectSeq(hs, LAMBDA p : p[1] # name)

AddHttpResponseHeader(hs, name, value) == Append(hs, <<name, value>>)

\* The request header maps the host delivers.
RequestHeaderSets ==
  { <<>>,
    (":authority" :> "a.test") @@ ("host" :> "h.test") @@ (":path" :> "/p"),
    ("host" :> "h.test") @@ ("x-forwarded-for" :> "10.0.0.1")
      @@ ("x-request-id" :> "rid-1") }

\* The upstream response headers besides :status.
PlainUpstream ==
  << <<"content-type", "application/json">>, <<"content-length", "12">>,
     <<"x-upstream", "u">> >>

GzipUpstream ==
  << <<"content-encoding", "gzip">>, <<"content-type", "text/plain">>,
     <<"content-type", "text/html; charset=utf-8">> >>

\* A response header map: the :status first, then the upstream headers.
WithStatus(status, hs) == << <<":status", status>> >> \o hs

\* The response header maps the host delivers: with a :status, or (the read
\* failing) without one.
ResponseHeaderSets ==
  { WithStatus("200", GzipUpstream), WithStatus("50", PlainUpstream),
    WithStatus("404", PlainUpstream), WithStatus("404", GzipUpstream),
    WithStatus("503", GzipUpstream),
    << <<"x-upstream", "u">>, <<"content-length", "12">> >> }

\* ---------------------------------------------------------------- state

VARIABLES
  pluginStatus,      \* "none" before OnPluginStart, then its return value
  pluginConfig,      \* the global *config.Config, Nil before start-up
  errorPageHandler,  \* the global *errorpages.Handler, Nil before start-up
  phase,             \* per context: idle, new, request, body, done
  ctx,               \* per context: the httpContext fields
  reqHeaders,        \* per context: the request header map the host holds
  upHeaders,         \* per context: the response headers as upstream sent them
  respHeaders,       \* per context: the response header map the host holds
  seen,              \* per context: body events delivered
  buffered,          \* per context: upstream chunks the host holds back
  forwarded,         \* per context: upstream chunks sent on to the client
  bodyOut,           \* per context: the replaced body sent on, or Nil
  ret,               \* per context: the action the last handler returned
  rendered,          \* per context: the data handed to RenderErrorPage, or Nil
  calls,             \* per context: counts of render, replace, pause, resume
  eval               \* a library function applied outside the filter:
                     \* its arguments and, once applied, its result

vars ==
  <<pluginStatus, pluginConfig, errorPageHandler, phase, ctx, reqHeaders,
    upHeaders, respHeaders, seen, buffered, forwarded, bodyOut, ret, rendered,
    calls, eval>>

globals == <<pluginStatus, pluginConfig, errorPageHandler>>

\* &httpContext{}: every field at its zero value.
NewContext ==
  [shouldReplaceBody |-> FALSE, statusCode |-> "", host |-> "",
   originalURI |-> "", forwardedFor |-> "", requestID |-> ""]

NoCalls == [render |-> 0, replace |-> 0, pause |-> 0, resume |-> 0]

filterVars ==
  <<pluginStatus, pluginConfig, errorPageHandler, phase, ctx, reqHeaders,
    upHeaders, respHeaders, seen, buffered, forwarded, bodyOut, ret, rendered,
    calls>>

FilterInit ==
  /\ pluginStatus = "none"
  /\ pluginConfig = Nil
  /\ errorPageHandler = Nil
  /\ phase = [r \in Requests |-> "idle"]
  /\ ctx = [r \in Requests |-> NewContext]
  /\ reqHeaders = [r \in Requests |-> <<>>]
  /\ upHeaders = [r \in Requests |-> <<>>]
  /\ respHeaders = [r \in Requests |-> <<>>]
  /\ seen = [r \in Requests |-> 0]
  /\ buffered = [r \in Requests |-> 0]
  /\ forwarded = [r \in Requests |-> 0]
  /\ bodyOut = [r \in Requests |-> Nil]
  /\ ret = [r \in Requests |-> NoAction]
  /\ rendered = [r \in Requests |-> Nil]
  /\ calls = [r \in Requests |-> NoCalls]

Init ==
  /\ FilterInit
  /\ eval = Nil

\* ------------------------------------------------------------- start-up

\* An OnPluginStart that gives up when the configured theme is not embedded.
PluginStart_NoFallback(configYAML, fs) ==
  LET parsed == Parse(configYAML)
      first == GetTemplate(fs, parsed.cfg.Theme)
      made == NewWithTemplate(first.data)
  IN IF parsed.err \/ first.err
     THEN [status |-> OnPluginStartStatusFailed, config |-> Nil, handler |-> Nil]
     ELSE [status |-> OnPluginStartStatusOK, config |-> parsed.cfg,
           handler |-> made.h]

\* pluginContext.OnPluginStart: the globals and the status it leaves.
PluginStart(configYAML, fs) ==
  LET parsed == Parse(configYAML)
      first == GetTemplate(fs, parsed.cfg.Theme)
      fallback == GetTemplate(fs, "app-down")
      cfg == IF first.err
             THEN [parsed.cfg EXCEPT !.Theme = "app-down"]
             ELSE parsed.cfg
      templateBytes == IF first.err THEN fallback.data ELSE first.data
      made == NewWithTemplate(templateBytes)
  IN IF parsed.err
     THEN [status |-> OnPluginStartStatusFailed, config |-> Nil, handler |-> Nil]
     ELSE IF first.err /\ fallback.err
          THEN [status |-> OnPluginStartStatusFailed, config |-> parsed.cfg,
                handler |-> Nil]
          ELSE IF made.err
               THEN [status |-> OnPluginStartStatusFailed, config |-> cfg,
                     handler |-> Nil]
               ELSE [status |-> OnPluginStartStatusOK, config |-> cfg,
                     handler |-> made.h]

OnPluginStart ==
  /\ pluginStatus = "none"
  /\ \E build \in Builds :
       LET out == PluginStart(build[1], build[2])
       IN /\ pluginStatus' = out.status
          /\ pluginConfig' = out.config
          /\ errorPageHandler' = out.handler
  /\ UNCHANGED <<phase, ctx, reqHeaders, upHeaders, respHeaders, seen,
                 buffered, forwarded, bodyOut, ret, rendered, calls, eval>>

\* A NewHttpContext that hands every request the same context object.
NewHttpContext_Shared(r) ==
  /\ pluginStatus = OnPluginStartStatusOK
  /\ phase[r] = "idle"
  /\ phase' = [phase EXCEPT ![r] = "new"]
  /\ ctx' = [q \in Requests |-> NewContext]
  /\ UNCHANGED <<globals, reqHeaders, upHeaders, respHeaders, seen, buffered,
                 forwarded, bodyOut, ret, rendered, calls, eval>>

\* pluginContext.NewHttpContext: a context with zero-valued fields.  The
\* host creates contexts only for a plugin that started.
NewHttpContext(r) ==
  /\ pluginStatus = OnPluginStartStatusOK
  /\ phase[r] = "idle"
  /\ phase' = [phase EXCEPT ![r] = "new"]
  /\ ctx' = [ctx EXCEPT ![r] = NewContext]
  /\ UNCHANGED <<globals, reqHeaders, upHeaders, respHeaders, seen, buffered,
                 forwarded, bodyOut, ret, rendered, calls, eval>>

\* ------------------------------------------------------ request handlers

\* An OnHttpRequestHeaders that prefers the host header to :authority.
RequestHeadersCtx_HostFirst(c, hs) ==
  LET authority == GetHttpRequestHeader(hs, ":authority")
      hostHdr == GetHttpRequestHeader(hs, "host")
      path == GetHttpRequestHeader(hs, ":path")
      xff == GetHttpRequestHeader(hs, "x-forwarded-for")
      reqID == GetHttpRequestHeader(hs, "x-request-id")
  IN [c EXCEPT
        !.host = IF ~hostHdr.err THEN hostHdr.val
                 ELSE IF ~authority.err THEN authority.val ELSE @,
        !.originalURI = IF ~path.err THEN path.val ELSE @,
        !.forwardedFor = IF ~xff.err THEN xff.val ELSE @,
        !.requestID = IF ~reqID.err THEN reqID.val ELSE @]

\* httpContext.OnHttpRequestHeaders: the four fields, each written only when
\* its header reads without error.
RequestHeadersCtx(c, hs) ==
  LET authority == GetHttpRequestHeader(hs, ":authority")
      hostHdr == GetHttpRequestHeader(hs, "host")
      path == GetHttpRequestHeader(hs, ":path")
      xff == GetHttpRequestHeader(hs, "x-forwarded-for")
      reqID == GetHttpRequestHeader(hs, "x-request-id")
  IN [c EXCEPT
        !.host = IF ~authority.err THEN authority.val
                 ELSE IF ~hostHdr.err THEN hostHdr.val ELSE @,
        !.originalURI = IF ~path.err THEN path.val ELSE @,
        !.forwardedFor = IF ~xff.err THEN xff.val ELSE @,
        !.requestID = IF ~reqID.err THEN reqID.val ELSE @]

OnHttpRequestHeaders(r) ==
  /\ phase[r] = "new"
  /\ \E hs \in RequestHeaderSets :
       /\ reqHeaders' = [reqHeaders EXCEPT ![r] = hs]
       /\ ctx' = [ctx EXCEPT ![r] = RequestHeadersCtx(ctx[r], hs)]
  /\ phase' = [phase EXCEPT ![r] = "request"]
  /\ ret' = [ret EXCEPT ![r] = ActionContinue]
  /\ UNCHANGED <<globals, upHeaders, respHeaders, seen, buffered, forwarded,
                 bodyOut, rendered, calls, eval>>

\* An OnHttpResponseHeaders that intercepts when the status cannot be read.
ResponseHeadersCtx_InterceptUnreadable(c, hs) ==
  LET status == GetHttpResponseHeader(hs, ":status")
  IN IF status.err \/ IsErrorStatus(status.val)
     THEN [c EXCEPT !.shouldReplaceBody = TRUE, !.statusCode = status.val]
     ELSE c

\* An OnHttpResponseHeaders that marks the context without keeping the status.
ResponseHeadersCtx_StatusNotKept(c, hs) ==
  LET status == GetHttpResponseHeader(hs, ":status")
  IN IF status.err
     THEN c
     ELSE IF IsErrorStatus(status.val)
          THEN [c EXCEPT !.shouldReplaceBody = TRUE]
          ELSE c

\* httpContext.OnHttpResponseHeaders: the context it leaves.
ResponseHeadersCtx(c, hs) ==
  LET status == GetHttpResponseHeader(hs, ":status")
  IN IF status.err
     THEN c
     ELSE IF IsErrorStatus(status.val)
          THEN [c EXCEPT !.shouldReplaceBody = TRUE, !.statusCode = status.val]
          ELSE c

\* An OnHttpResponseHeaders that does not remove the upstream content-type.
ResponseHeadersMap_KeepContentType(hs) ==
  LET status == GetHttpResponseHeader(hs, ":status")
      h1 == RemoveHttpResponseHeader(hs, "content-length")
      h2 == RemoveHttpResponseHeader(h1, "content-encoding")
  IN IF status.err
     THEN hs
     ELSE IF IsErrorStatus(status.val)
          THEN AddHttpResponseHeader(h2, "content-type",
                                     "text/html; charset=utf-8")
          ELSE hs

\* httpContext.OnHttpResponseHeaders: the response header map it leaves.
ResponseHeadersMap(hs) ==
  LET status == GetHttpResponseHeader(hs, ":status")
      h1 == RemoveHttpResponseHeader(hs, "content-length")
      h2 == RemoveHttpResponseHeader(h1, "content-encoding")
      h3 == RemoveHttpResponseHeader(h2, "content-type")
  IN IF status.err
     THEN hs
     ELSE IF IsErrorStatus(status.val)
          THEN AddHttpResponseHeader(h3, "content-type",
                                     "text/html; charset=utf-8")
          ELSE hs

\* The host delivers the response headers once per context, with the end of
\* the stream when the response has no body.
OnHttpResponseHeaders(r, endOfStream) ==
  /\ phase[r] = "request"
  /\ \E hs \in ResponseHeaderSets :
       /\ upHeaders' = [upHeaders EXCEPT ![r] = hs]
       /\ respHeaders' = [respHeaders EXCEPT ![r] = ResponseHeadersMap(hs)]
       /\ ctx' = [ctx EXCEPT ![r] = ResponseHeadersCtx(ctx[r], hs)]
  /\ phase' = [phase EXCEPT ![r] = IF endOfStream THEN "done" ELSE "body"]
  /\ ret' = [ret EXCEPT ![r] = ActionContinue]
  /\ UNCHANGED <<globals, reqHeaders, seen, buffered, forwarded, bodyOut,
                 rendered, calls, eval>>

\* OnHttpResponseBody: the digit-by-digit parse of the captured status text.
RECURSIVE ParseStatusCode(_, _)
ParseStatusCode(bytes, acc) ==
  IF bytes = <<>>
  THEN acc
  ELSE ParseStatusCode(Tail(bytes),
                       IF Head(bytes) \in Digits
                       THEN acc * 10 + DigitVal(Head(bytes))
                       ELSE acc)

\* OnHttpResponseBody: the TemplateData built at the end of the stream.
BuildTemplateData(c, cfg) ==
  TemplateData(ParseStatusCode(Bytes(c.statusCode), 0), cfg.ShowDetails,
               c.host, c.originalURI, c.forwardedFor, c.requestID)

\* An OnHttpResponseBody that answers Pause when the render or the
\* replacement fails.
ResponseBodyAtEnd_PauseOnFailure(c, cfg, h, now, replaceOK) ==
  LET data == BuildTemplateData(c, cfg)
      out == RenderErrorPage(h, data, now)
  IN IF out.err
     THEN [decision |-> ActionPause, page |-> Nil, data |-> data,
           render |-> TRUE, replace |-> FALSE, handler |-> out.h]
     ELSE IF ~replaceOK
          THEN [decision |-> ActionPause, page |-> Nil, data |-> data,
                render |-> TRUE, replace |-> TRUE, handler |-> out.h]
          ELSE [decision |-> ActionContinue, page |-> out.page, data |-> data,
                render |-> TRUE, replace |-> TRUE, handler |-> out.h]

\* OnHttpResponseBody at the end of the stream of an intercepted response:
\* render, then replace; Continue whether or not either fails.  page is the
\* body handed to ReplaceHttpResponseBody and accepted (Nil when none),
\* render and replace whether each call was made, handler the global handler
\* as the render leaves it.
ResponseBodyAtEnd(c, cfg, h, now, replaceOK) ==
  LET data == BuildTemplateData(c, cfg)
      out == RenderErrorPage(h, data, now)
  IN IF out.err
     THEN [decision |-> ActionContinue, page |-> Nil, data |-> data,
           render |-> TRUE, replace |-> FALSE, handler |-> out.h]
     ELSE IF ~replaceOK
          THEN [decision |-> ActionContinue, page |-> Nil, data |-> data,
                render |-> TRUE, replace |-> TRUE, handler |-> out.h]
          ELSE [decision |-> ActionContinue, page |-> out.page, data |-> data,
                render |-> TRUE, replace |-> TRUE, handler |-> out.h]

\* An OnHttpResponseBody without the wait for the end of the stream.
ResponseBody_NoWait(c, cfg, h, endOfStream, now, replaceOK) ==
  IF ~c.shouldReplaceBody
  THEN [decision |-> ActionContinue, page |-> Nil, data |-> Nil,
        render |-> FALSE, replace |-> FALSE, handler |-> h]
  ELSE ResponseBodyAtEnd(c, cfg, h, now, replaceOK)

\* httpContext.OnHttpResponseBody: what one body event does, given the time
\* of the render and whether the host accepts the replacement.
ResponseBody(c, cfg, h, endOfStream, now, replaceOK) ==
  IF ~c.shouldReplaceBody
  THEN [decision |-> ActionContinue, page |-> Nil, data |-> Nil,
        render |-> FALSE, replace |-> FALSE, handler |-> h]
  ELSE IF ~endOfStream
       THEN [decision |-> ActionPause, page |-> Nil, data |-> Nil,
             render |-> FALSE, replace |-> FALSE, handler |-> h]
       ELSE ResponseBodyAtEnd(c, cfg, h, now, replaceOK)

\* One body event.  On Pause the host keeps the chunk back; on Continue it
\* sends on what it holds: the replaced body when the replacement was
\* accepted, else every chunk held back and this one.  The last event the
\* host delivers carries the end of the stream.
OnHttpResponseBody(r, endOfStream) ==
  /\ phase[r] = "body"
  /\ seen[r] < MaxChunks
  /\ seen[r] + 1 = MaxChunks => endOfStream
  /\ \E now \in NowValues, replaceOK \in BOOLEAN :
       LET out == ResponseBody(ctx[r], pluginConfig, errorPageHandler,
                               endOfStream, now, replaceOK)
       IN /\ ret' = [ret EXCEPT ![r] = out.decision]
          /\ errorPageHandler' = out.handler
          /\ rendered' = [rendered EXCEPT
                            ![r] = IF out.render THEN out.data ELSE @]
          /\ calls' = [calls EXCEPT
               ![r].render = @ + (IF out.render THEN 1 ELSE 0),
               ![r].replace = @ + (IF out.replace THEN 1 ELSE 0),
               ![r].pause = @ + (IF out.decision = ActionPause THEN 1 ELSE 0),
               ![r].resume =
                 @ + (IF out.decision = ActionContinue THEN 1 ELSE 0)]
          /\ bodyOut' = [bodyOut EXCEPT ![r] = out.page]
          /\ buffered' = [buffered EXCEPT
               ![r] = IF out.decision = ActionPause THEN @ + 1 ELSE 0]
          /\ forwarded' = [forwarded EXCEPT
               ![r] = IF out.decision = ActionPause \/ out.page # Nil
                      THEN @
                      ELSE @ + buffered[r] + 1]
  /\ seen' = [seen EXCEPT ![r] = @ + 1]
  /\ phase' = [phase EXCEPT ![r] = IF endOfStream THEN "done" ELSE "body"]
  /\ UNCHANGED <<pluginStatus, pluginConfig, ctx, reqHeaders, upHeaders,
                 respHeaders, eval>>

Next ==
  \/ OnPluginStart
  \/ \E r \in Requests : NewHttpContext(r)
  \/ \E r \in Requests : OnHttpRequestHeaders(r)
  \/ \E r \in Requests, endOfStream \in BOOLEAN :
       OnHttpResponseHeaders(r, endOfStream)
  \/ \E r \in Requests, endOfStream \in BOOLEAN :
       OnHttpResponseBody(r, endOfStream)

Spec == Init /\ [][Next]_vars

\* ---------------------------------------------------------------- claims

\* The :status values of the 4xx/5xx responses among ResponseHeaderSets.
ErrorStatusTexts == {"404", "503"}

\* The upstream response of r was delivered with a 4xx/5xx :status.
CarriesErrorStatus(r) ==
  \E i \in DOMAIN upHeaders[r] :
    upHeaders[r][i][1] = ":status" /\ upHeaders[r][i][2] \in ErrorStatusTexts

\* The upstream response of r was delivered without a readable :status.
StatusUnreadable(r) ==
  \A i \in DOMAIN upHeaders[r] : upHeaders[r][i][1] # ":status"

\* The response headers of r have been delivered.
Classified(r) == phase[r] \in {"body", "done"}

\* This step delivers a body event to r.
BodyEvent(r) == seen'[r] = seen[r] + 1

\* This step delivers any event to r.
EventFor(r) == phase'[r] # phase[r] \/ seen'[r] # seen[r]

HeaderCount(hs, name) == Len(SelectSeq(hs, LAMBDA p : p[1] = name))

\* C1: for a response whose headers carried a 4xx/5xx status, a body event
\* without the end of the stream returns Pause, makes no render and no
\* replace call and sends nothing on; the body event with the end of the
\* stream makes the one render call, and only it can replace the body.
C1_PauseUntilEndOfStream ==
  [][\A r \in Requests :
       (CarriesErrorStatus(r) /\ BodyEvent(r)) =>
         IF phase'[r] = "body"
         THEN /\ ret'[r] = ActionPause
              /\ calls'[r].render = calls[r].render
              /\ calls'[r].replace = calls[r].replace
              /\ bodyOut'[r] = Nil
              /\ forwarded'[r] = 0
              /\ buffered'[r] = seen'[r]
         ELSE /\ calls'[r].render = calls[r].render + 1
              /\ calls'[r].replace <= calls[r].replace + 1
              /\ bodyOut'[r] # Nil => calls'[r].replace = calls[r].replace + 1]_vars

\* C1 witness: a 4xx/5xx response of MaxChunks chunks, every chunk but the
\* last paused, rendered and replaced at the last.
C1_Witness ==
  \E r \in Requests :
    /\ CarriesErrorStatus(r)
    /\ phase[r] = "done"
    /\ seen[r] = MaxChunks
    /\ calls[r].pause = MaxChunks - 1
    /\ calls[r].render = 1
    /\ bodyOut[r] # Nil

\* C2: for a response whose status is not 4xx/5xx, the response headers stay
\* as upstream sent them, every body event returns Continue and sends its
\* chunk on, and the body is never replaced; ReplaceHttpResponseBody is
\* called only for a context whose shouldReplaceBody is true.
C2_PassThroughUntouched ==
  \A r \in Requests :
    /\ (Classified(r) /\ ~CarriesErrorStatus(r)) =>
         /\ respHeaders[r] = upHeaders[r]
         /\ calls[r].pause = 0
         /\ calls[r].resume = seen[r]
         /\ calls[r].render = 0
         /\ calls[r].replace = 0
         /\ bodyOut[r] = Nil
         /\ forwarded[r] = seen[r]
         /\ buffered[r] = 0
         /\ ret[r] = ActionContinue
    /\ calls[r].replace > 0 => ctx[r].shouldReplaceBody

\* C2 witness: a 200 response of MaxChunks chunks, all of them sent on.
C2_Witness ==
  \E r \in Requests :
    /\ upHeaders[r] # <<>>
    /\ upHeaders[r][1] = <<":status", "200">>
    /\ phase[r] = "done"
    /\ forwarded[r] = MaxChunks

\* C3: for an intercepted request, a body event returns Continue at most
\* once, and exactly at the event with the end of the stream: every earlier
\* event returned Pause; the page is rendered and the body replaced at most
\* once.
C3_ResumedOnceAtEnd ==
  \A r \in Requests :
    ctx[r].shouldReplaceBody =>
      /\ calls[r].resume <= 1
      /\ calls[r].resume = 1 <=> (phase[r] = "done" /\ seen[r] > 0)
      /\ calls[r].pause + calls[r].resume = seen[r]
      /\ calls[r].render <= 1
      /\ calls[r].replace <= 1
      /\ calls[r].render = calls[r].resume

\* C3 witness: an intercepted request paused twice or more and resumed once.
C3_Witness ==
  \E r \in Requests :
    /\ ctx[r].shouldReplaceBody
    /\ phase[r] = "done"
    /\ calls[r].pause >= 2
    /\ calls[r].resume = 1
    /\ calls[r].replace = 1

\* The response headers of r were rewritten for interception.
HeadersRewritten(r) == respHeaders[r] # upHeaders[r]

\* C4: no completed response is mixed: with the headers rewritten the body
\* sent on is the rendered page and no upstream chunk, and with the headers
\* not rewritten the body is the upstream body.
C4_NoMixedResponse ==
  \A r \in Requests :
    phase[r] = "done" =>
      IF HeadersRewritten(r)
      THEN bodyOut[r] # Nil /\ forwarded[r] = 0
      ELSE bodyOut[r] = Nil /\ forwarded[r] = seen[r]

\* C5: when the render or the replacement fails for an intercepted response,
\* the handler returns Continue without a second attempt, and the client
\* receives the upstream response as it was: its headers and its body.
C5_FailureLeavesUpstreamResponse ==
  \A r \in Requests :
    (phase[r] = "done" /\ calls[r].render > 0 /\ bodyOut[r] = Nil) =>
      /\ ret[r] = ActionContinue
      /\ calls[r].render = 1
      /\ calls[r].replace <= 1
      /\ forwarded[r] = seen[r]
      /\ respHeaders[r] = upHeaders[r]

ReplacedHeaderNames == {"content-length", "content-encoding", "content-type"}

\* C6: the response headers are rewritten exactly when IsErrorStatus holds
\* of the status read; then the map holds one content-type, of value
\* text/html; charset=utf-8, no content-length and no content-encoding, and
\* every other header as upstream sent it.
C6_HeaderRewriteIffError ==
  \A r \in Requests :
    Classified(r) =>
      LET status == GetHttpResponseHeader(upHeaders[r], ":status")
          others(hs) == SelectSeq(hs, LAMBDA p : p[1] \notin ReplacedHeaderNames)
      IN IF ~status.err /\ IsErrorStatus(status.val)
         THEN /\ HeaderCount(respHeaders[r], "content-type") = 1
              /\ <<"content-type", "text/html; charset=utf-8">> =
                   respHeaders[r][Len(respHeaders[r])]
              /\ HeaderCount(respHeaders[r], "content-length") = 0
              /\ HeaderCount(respHeaders[r], "content-encoding") = 0
              /\ others(respHeaders[r]) = others(upHeaders[r])
              /\ respHeaders[r] =
                   others(upHeaders[r])
                     \o << <<"content-type", "text/html; charset=utf-8">> >>
         ELSE respHeaders[r] = upHeaders[r]

\* C6 witness: an intercepted response that upstream sent gzip-encoded with
\* two content-type headers.
C6_Witness ==
  \E r \in Requests :
    /\ Classified(r)
    /\ ctx[r].shouldReplaceBody
    /\ HeaderCount(upHeaders[r], "content-type") = 2
    /\ HeaderCount(upHeaders[r], "content-encoding") = 1

\* C7: when the :status read fails, OnHttpResponseHeaders returns Continue,
\* leaves shouldReplaceBody false and the response headers as they were, and
\* every later body event passes through.
C7_StatusReadFailurePassThrough ==
  \A r \in Requests :
    (Classified(r) /\ StatusUnreadable(r)) =>
      /\ ~ctx[r].shouldReplaceBody
      /\ ctx[r].statusCode = ""
      /\ respHeaders[r] = upHeaders[r]
      /\ ret[r] = ActionContinue
      /\ calls[r].pause = 0
      /\ calls[r].render = 0
      /\ calls[r].replace = 0
      /\ forwarded[r] = seen[r]
      /\ bodyOut[r] = Nil

\* C7 witness: a response without a readable :status, its body delivered.
C7_Witness ==
  \E r \in Requests :
    /\ StatusUnreadable(r)
    /\ phase[r] = "done"
    /\ seen[r] = MaxChunks

\* The value a request header map gives a name, empty when absent.
HeaderOrEmpty(hs, name) == IF name \in DOMAIN hs THEN hs[name] ELSE ""

\* C8: from the request headers on, through the response headers and every
\* body event, host, originalURI, forwardedFor and requestID are the values
\* the request headers gave (host from :authority, else from host, else
\* empty; each other field empty when its header is absent), and the data
\* handed to the renderer carries exactly these values.
C8_CapturedFieldsReachRenderer ==
  \A r \in Requests :
    phase[r] \in {"request", "body", "done"} =>
      LET hs == reqHeaders[r]
          host == IF ":authority" \in DOMAIN hs THEN hs[":authority"]
                  ELSE HeaderOrEmpty(hs, "host")
      IN /\ ctx[r].host = host
         /\ ctx[r].originalURI = HeaderOrEmpty(hs, ":path")
         /\ ctx[r].forwardedFor = HeaderOrEmpty(hs, "x-forwarded-for")
         /\ ctx[r].requestID = HeaderOrEmpty(hs, "x-request-id")
         /\ rendered[r] # Nil =>
              /\ rendered[r].Host = host
              /\ rendered[r].OriginalURI = HeaderOrEmpty(hs, ":path")
              /\ rendered[r].ForwardedFor = HeaderOrEmpty(hs, "x-forwarded-for")
              /\ rendered[r].RequestID = HeaderOrEmpty(hs, "x-request-id")

\* C8 witness: a render for a request that carried :authority and host.
C8_Witness ==
  \E r \in Requests :
    /\ rendered[r] # Nil
    /\ {":authority", "host"} \subseteq DOMAIN reqHeaders[r]
    /\ rendered[r].Host = "a.test"
    /\ rendered[r].ForwardedFor = ""

\* C9: an event delivered to one context leaves the fields of every other
\* context, and everything the host holds for it, unchanged; the action a
\* body event returns is Pause exactly when that context's own
\* shouldReplaceBody is set and the event does not end the stream.
C9_ContextsIndependent ==
  [][\A r \in Requests :
       EventFor(r) =>
         /\ \A q \in Requests \ {r} :
              /\ ctx'[q] = ctx[q]
              /\ phase'[q] = phase[q]
              /\ ret'[q] = ret[q]
              /\ respHeaders'[q] = respHeaders[q]
              /\ rendered'[q] = rendered[q]
              /\ bodyOut'[q] = bodyOut[q]
              /\ calls'[q] = calls[q]
         /\ BodyEvent(r) =>
              ret'[r] = IF ctx[r].shouldReplaceBody /\ phase'[r] = "body"
                        THEN ActionPause
                        ELSE ActionContinue]_vars

\* C9 witness: two contexts in flight, one intercepting and paused, the
\* other passing a body through.
C9_Witness ==
  \E r, q \in Requests :
    /\ r # q
    /\ ctx[r].shouldReplaceBody /\ ret[r] = ActionPause /\ buffered[r] > 0
    /\ ~ctx[q].shouldReplaceBody /\ phase[q] = "body" /\ forwarded[q] > 0

\* C10: pluginConfig and errorPageHandler change only in the step of
\* OnPluginStart; no request handler and no render changes them afterwards.
C10_GlobalsWrittenAtStartOnly ==
  [][(pluginConfig' # pluginConfig \/ errorPageHandler' # errorPageHandler)
       => (pluginStatus = "none" /\ pluginStatus' # "none")]_vars

\* C10 witness: two pages rendered and accepted from the same handler.
C10_Witness ==
  /\ pluginStatus = OnPluginStartStatusOK
  /\ \A r \in Requests : bodyOut[r] # Nil /\ calls[r].render = 1

\* The :status text the upstream response of r was delivered with.
UpstreamStatus(r) == GetHttpResponseHeader(upHeaders[r], ":status").val

\* C11: in every context shouldReplaceBody is false and statusCode empty until
\* the response headers arrive; the flag becomes true only in the step that
\* delivers response headers with a 4xx/5xx status, which also stores that
\* status text in statusCode; once true the flag is never reset and
\* statusCode keeps that text in every later step of the request.
C11_FlagSetOnceStatusKept ==
  [][\A r \in Requests :
       /\ ~Classified(r) =>
            ~ctx[r].shouldReplaceBody /\ ctx[r].statusCode = ""
       /\ (~ctx[r].shouldReplaceBody /\ ctx'[r].shouldReplaceBody) =>
            /\ phase[r] = "request" /\ phase'[r] \in {"body", "done"}
            /\ CarriesErrorStatus(r)'
            /\ ctx'[r].statusCode = UpstreamStatus(r)'
       /\ (phase[r] = "request" /\ Classified(r)' /\ CarriesErrorStatus(r)') =>
            ctx'[r].shouldReplaceBody
       /\ ctx[r].shouldReplaceBody =>
            /\ ctx'[r].shouldReplaceBody
            /\ ctx'[r].statusCode = ctx[r].statusCode
            /\ ctx[r].statusCode = UpstreamStatus(r)]_vars

\* C11 witness: a context marked at its 503 response headers still holds the
\* flag and the text "503" after MaxChunks body events have ended the request.
C11_Witness ==
  \E r \in Requests :
    /\ phase[r] = "done" /\ seen[r] = MaxChunks
    /\ UpstreamStatus(r) = "503"
    /\ ctx[r].shouldReplaceBody /\ ctx[r].statusCode = "503"

\* C14: a template that text/template refuses to parse makes OnPluginStart
\* return Failed, so the plugin never runs, and no context is ever created,
\* with such a template in the handler.
C14_RejectedTemplateFailsStart ==
  /\ pluginStatus = OnPluginStartStatusOK =>
       errorPageHandler.templateText.raw.fault # "parse"
  /\ \A r \in Requests :
       phase[r] # "idle" => errorPageHandler.templateText.raw.fault # "parse"

\* ------------------------------------- library functions on their own

\* A function of the library about to be applied to arg.
Call(fn, arg) == [fn |-> fn, arg |-> arg, done |-> FALSE, out |-> Nil]

\* The call has returned out.
Return(call, out) == [call EXCEPT !.done = TRUE, !.out = out]

\* ---- IsErrorStatus over status texts

MaxStatusLen == 4

\* Bytes a status text is made of: digits at and beyond both ends of the
\* 4xx/5xx classes, a letter and a blank.
StatusAlphabet == {"0", "3", "4", "5", "6", "a", " "}

StatusInputs ==
  UNION {[1..n -> StatusAlphabet] : n \in 0..MaxStatusLen}

InitStatus ==
  /\ FilterInit
  /\ eval \in {Call("IsErrorStatus", status) : status \in StatusInputs}

ApplyIsErrorStatus ==
  /\ eval.fn = "IsErrorStatus" /\ ~eval.done
  /\ eval' = Return(eval, IsErrorStatusBytes(eval.arg))
  /\ UNCHANGED filterVars

NextStatus == ApplyIsErrorStatus

SpecStatus == InitStatus /\ [][NextStatus]_vars

\* C12: IsErrorStatus of a text of exactly three bytes is true exactly when
\* the first byte is '4' or '5'; of a text of any other length it is false.
C12_ThreeBytesFirstFourOrFive ==
  eval.done =>
    IF Len(eval.arg) = 3
    THEN eval.out = (eval.arg[1] \in {"4", "5"})
    ELSE eval.out = FALSE

\* C12 witness: a three-byte text starting with '5' was classified an error.
C12_Witness ==
  /\ eval.done /\ eval.out = TRUE
  /\ Len(eval.arg) = 3 /\ eval.arg[1] = "5"

\* C13: IsErrorStatus is false of every text that holds a byte other than a
\* decimal digit, and true only of three decimal digits between 100 and 599.
C13_NonNumericNeverError ==
  eval.done =>
    /\ (\E i \in DOMAIN eval.arg : eval.arg[i] \notin Digits) =>
         eval.out = FALSE
    /\ eval.out = TRUE =>
         /\ Len(eval.arg) = 3
         /\ \A i \in DOMAIN eval.arg : eval.arg[i] \in Digits
         /\ eval.arg[1] \in {"1", "2", "3", "4", "5"}

\* ---- OnPluginStart over builds

\* The documents a build may embed under each file name.
TemplateDocs ==
  {Doc(file, fault) : file \in {"cats.html", "app-down.html", "nope.html"},
                      fault \in {"none", "parse"}}

\* The embedded file systems: at most one document under a file name.
TemplateFileSystems ==
  {fs \in SUBSET TemplateDocs :
     \A d1, d2 \in fs : d1.file = d2.file => d1 = d2}

ConfigYAMLs == {DefaultYAML, QuietYAML, UnknownThemeYAML, SuffixedYAML}

InitStart ==
  /\ FilterInit
  /\ eval \in {Call("OnPluginStart", <<yaml, fs>>) :
                 yaml \in ConfigYAMLs, fs \in TemplateFileSystems}

ApplyOnPluginStart ==
  /\ eval.fn = "OnPluginStart" /\ ~eval.done
  /\ eval' = Return(eval, PluginStart(eval.arg[1], eval.arg[2]))
  /\ UNCHANGED filterVars

NextStart == ApplyOnPluginStart

SpecStart == InitStart /\ [][NextStart]_vars

\* The file name a theme name stands for.
ThemeFile(theme) ==
  IF HasHtmlSuffix(theme) THEN theme ELSE WithHtmlSuffix(theme)

\* The embedded documents of the theme the config.yaml of the call names.
ConfiguredDocs ==
  {d \in eval.arg[2] : d.file = ThemeFile(Parse(eval.arg[1]).cfg.Theme)}

\* The embedded documents of the default theme.
DefaultDocs == {d \in eval.arg[2] : d.file = "app-down.html"}

\* C15: OnPluginStart loads the template of the configured theme when it is
\* embedded; otherwise it loads the template of the theme "app-down" and
\* records that theme; it returns Failed, with no handler, when that one is
\* not embedded either; it returns OK only with a template loaded.
C15_ThemeOrDefaultOrFailed ==
  eval.done =>
    /\ IF ConfiguredDocs # {}
       THEN /\ eval.out.status = OnPluginStartStatusOK
            /\ eval.out.handler.templateText.raw \in ConfiguredDocs
            /\ eval.out.config.Theme = Parse(eval.arg[1]).cfg.Theme
       ELSE IF DefaultDocs # {}
            THEN /\ eval.out.status = OnPluginStartStatusOK
                 /\ eval.out.handler.templateText.raw \in DefaultDocs
                 /\ eval.out.config.Theme = "app-down"
            ELSE /\ eval.out.status = OnPluginStartStatusFailed
                 /\ eval.out.handler = Nil
    /\ eval.out.status = OnPluginStartStatusOK => eval.out.handler # Nil

\* C15 witness: the configured theme is not embedded, the default one is, and
\* start-up returned OK with the default template and theme.
C15_Witness ==
  /\ eval.done
  /\ ConfiguredDocs = {} /\ DefaultDocs # {}
  /\ eval.out.status = OnPluginStartStatusOK
  /\ eval.out.config.Theme = "app-down"
  /\ eval.out.handler.templateText.raw.file = "app-down.html"

\* ------------------- internal/errorpages: the string-replacement renderer

\* A Go string of the renderer is a sequence of tokens: a token is a piece of
\* text that the renderer only ever matches, inserts or removes as a whole
\* (a marker, a placeholder, a tag, a line break "\n", a run of other text).

\* strings.Index for a one-token needle, searching from token position from:
\* the position of the first token that is in toks, 0 when there is none.
Index(s, from, toks) ==
  LET hits == {i \in from..Len(s) : s[i] \in toks}
  IN IF hits = {} THEN 0 ELSE CHOOSE i \in hits : \A j \in hits : i <= j

\* strings.ReplaceAll of the token old by the text new: the text up to the
\* first old, then new, then the same for the rest; s itself without an old.
RECURSIVE ReplaceAll(_, _, _)
ReplaceAll(s, old, new) ==
  LET i == Index(s, 1, {old})
  IN IF i = 0
     THEN s
     ELSE SubSeq(s, 1, i - 1) \o new
            \o ReplaceAll(SubSeq(s, i + 1, Len(s)), old, new)

\* The tokens of a field value: the characters htmlEscape rewrites stand
\* alone, the text between them is one token.
Text(s) ==
  CASE s = "" -> <<>>
    [] s = "Tom & <b>" -> <<"Tom ", "&", " ", "<", "b", ">">>
    [] OTHER -> <<s>>

RECURSIVE htmlEscapeFrom(_, _)
htmlEscapeFrom(s, todo) ==
  IF todo = <<>> \/ s = <<>>
  THEN s
  ELSE htmlEscapeFrom(ReplaceAll(s, Head(todo).old, Head(todo).new),
                      Tail(todo))

\* htmlEscape: the five replacements in the order of the source; "&" first.
htmlEscape(s) ==
  htmlEscapeFrom(s, << [old |-> "&", new |-> <<"&", "amp;">>],
                       [old |-> "<", new |-> <<"&", "lt;">>],
                       [old |-> ">", new |-> <<"&", "gt;">>],
                       [old |-> "\"", new |-> <<"&", "quot;">>],
                       [old |-> "'", new |-> <<"&", "#39;">>] >>)

\* The flags the templates branch on.
Conditions == {"show_details", "l10n_enabled", "host"}

\* processIfBlock: the six spellings of the markers of a condition.
Patterns(condition) ==
  << [start |-> "<!-- {{- if " \o condition \o " -}} -->",
      end |-> "<!-- {{- end -}} -->"],
     [start |-> "<!-- {{ if " \o condition \o " }} -->",
      end |-> "<!-- {{ end }} -->"],
     [start |-> "<!-- {{- if " \o condition \o " }} -->",
      end |-> "<!-- {{ end }} -->"],
     [start |-> "<!-- {{ if " \o condition \o " -}} -->",
      end |-> "<!-- {{- end -}} -->"],
     [start |-> "<!-- {{if " \o condition \o "}} -->",
      end |-> "<!-- {{end}} -->"],
     [start |-> "<!-- {{- if " \o condition \o " -}}-->",
      end |-> "<!--{{- end -}}-->"] >>

\* The tokens that begin with "<!-- {{- if ".
DashIfTokens ==
  {"<!-- {{- if " \o c \o tail :
     c \in Conditions, tail \in {" -}} -->", " }} -->", " -}}-->"}}

\* The tokens that begin with "{{ if ".
BareIfTokens ==
  {"{{ if " \o c \o tail :
     c \in Conditions \cup {"original_uri", "forwarded_for", "request_id"},
     tail \in {" }}", " -}}", " -}} -->"}}

\* processIfBlock, the scan for the end marker: searchPos is the token the
\* search starts at, inside is true when searchPos stands behind the
\* "<!-- {{- if " of the token before it; 0 when no end is found.
RECURSIVE FindEnd(_, _, _, _, _)
FindEnd(result, end, searchPos, inside, nestLevel) ==
  IF searchPos > Len(result)
  THEN 0
  ELSE LET nextIfIdx == Index(result, searchPos, DashIfTokens)
           nextEndIdx == Index(result, searchPos, {end})
           isChained ==
             /\ nextEndIdx > searchPos \/ inside
             /\ nextEndIdx < Len(result)
             /\ result[nextEndIdx + 1] \in BareIfTokens
       IN IF nextEndIdx # 0 /\ (nextIfIdx = 0 \/ nextEndIdx < nextIfIdx)
          THEN IF ~isChained /\ nestLevel - 1 = 0
               THEN nextEndIdx
               ELSE FindEnd(result, end, nextEndIdx + 1, FALSE,
                            IF isChained THEN nestLevel ELSE nestLevel - 1)
          ELSE IF nextIfIdx # 0
               THEN FindEnd(result, end, nextIfIdx + 1, TRUE, nestLevel + 1)
               ELSE 0

\* processIfBlock from the k-th pattern on; a resolved block starts the
\* function again on the result.
RECURSIVE processIfBlockFrom(_, _, _, _)
processIfBlockFrom(result, condition, show, k) ==
  IF k > Len(Patterns(condition))
  THEN result
  ELSE LET p == Patterns(condition)[k]
           startIdx == Index(result, 1, {p.start})
           endIdx == FindEnd(result, p.end, startIdx + 1, FALSE, 1)
           content == SubSeq(result, startIdx + 1, endIdx - 1)
           before == SubSeq(result, 1, startIdx - 1)
           after == SubSeq(result, endIdx + 1, Len(result))
       IN IF startIdx = 0
          THEN processIfBlockFrom(result, condition, show, k + 1)
          ELSE IF endIdx = 0
               THEN processIfBlockFrom(result, condition, show, k + 1)
               ELSE processIfBlockFrom(
                      IF show THEN before \o content \o after
                              ELSE before \o after,
                      condition, show, 1)

processIfBlock(template, condition, show) ==
  processIfBlockFrom(template, condition, show, 1)

RefreshStart ==
  "<!-- {{ if or (eq code 408) (eq code 425) (eq code 429) (eq code 500) (eq code 502) (eq code 503) (eq code 504) }} -->"

RefreshEnd == "<!-- {{ end }} -->"

processComplexRefreshConditional(template, show) ==
  LET startIdx == Index(template, 1, {RefreshStart})
      endIdx == Index(template, startIdx, {RefreshEnd})
      content == SubSeq(template, startIdx + 1, endIdx - 1)
      before == SubSeq(template, 1, startIdx - 1)
      after == SubSeq(template, endIdx + 1, Len(template))
  IN IF startIdx = 0
     THEN template
     ELSE IF endIdx = 0
          THEN template
          ELSE IF show THEN before \o content \o after ELSE before \o after

\* A processConditionals whose auto-refresh list lacks 425.
processConditionals_No425(template, data) ==
  LET shouldAutoRefresh == data.Code \in {408, 429, 500, 502, 503, 504}
      r1 == processComplexRefreshConditional(template, shouldAutoRefresh)
      r2 == processIfBlock(r1, "show_details", data.ShowDetails)
  IN processIfBlock(r2, "l10n_enabled", data.L10nEnabled)

processConditionals(template, data) ==
  LET shouldAutoRefresh ==
        \/ data.Code = 408 \/ data.Code = 425 \/ data.Code = 429
        \/ data.Code = 500 \/ data.Code = 502 \/ data.Code = 503
        \/ data.Code = 504
      r1 == processComplexRefreshConditional(template, shouldAutoRefresh)
      r2 == processIfBlock(r1, "show_details", data.ShowDetails)
  IN processIfBlock(r2, "l10n_enabled", data.L10nEnabled)

\* renderTemplate: the placeholders and their values, in source order.
replacements(data) ==
  << [placeholder |-> "{{ code }}", value |-> Text(ToString(data.Code))],
     [placeholder |-> "{{ message }}", value |-> Text(data.Message)],
     [placeholder |-> "{{ description }}", value |-> Text(data.Description)],
     [placeholder |-> "{{ message | escape }}",
      value |-> htmlEscape(Text(data.Message))],
     [placeholder |-> "{{ description | escape }}",
      value |-> htmlEscape(Text(data.Description))],
     [placeholder |-> "{{ host }}", value |-> Text(data.Host)],
     [placeholder |-> "{{ original_uri }}", value |-> Text(data.OriginalURI)],
     [placeholder |-> "{{ forwarded_for }}",
      value |-> Text(data.ForwardedFor)],
     [placeholder |-> "{{ request_id }}", value |-> Text(data.RequestID)],
     [placeholder |-> "{{ nowUnix }}", value |-> Text(ToString(data.NowUnix))],
     [placeholder |-> "{{ l10nScript }}", value |-> Text(data.L10nScript)] >>

\* The orders a range over the replacements map may take: the runtime starts
\* the iteration at a random entry and wraps around.
IterationOrders(n) ==
  {[i \in 1..n |-> ((i + k - 2) % n) + 1] : k \in 1..n}

RECURSIVE ReplaceInOrder(_, _, _)
ReplaceInOrder(result, reps, order) ==
  IF order = <<>> \/ result = <<>>
  THEN result
  ELSE ReplaceInOrder(ReplaceAll(result, reps[Head(order)].placeholder,
                                 reps[Head(order)].value),
                      reps, Tail(order))

\* renderTemplate, with the order the range over the map took.
renderTemplate(template, data, order) ==
  ReplaceInOrder(processConditionals(template, data), replacements(data),
                 order)

\* strings.Split(s, "\n")
RECURSIVE Split(_)
Split(s) ==
  LET i == Index(s, 1, {"\n"})
  IN IF i = 0
     THEN <<s>>
     ELSE <<SubSeq(s, 1, i - 1)>> \o Split(SubSeq(s, i + 1, Len(s)))

\* strings.Join(lines, "\n")
RECURSIVE Join(_)
Join(lines) ==
  IF lines = <<>>
  THEN <<>>
  ELSE IF Len(lines) = 1
       THEN lines[1]
       ELSE lines[1] \o <<"\n">> \o Join(Tail(lines))

\* strings.Contains for a one-token needle.
Contains(line, token) == \E i \in DOMAIN line : line[i] = token

\* strings.Contains(line, `<td class="value"></td>`): the opening tag with
\* the closing tag right behind it.
ContainsEmptyValue(line) ==
  \E i \in 1..(Len(line) - 1) :
    line[i] = "<td class=\"value\">" /\ line[i + 1] = "</td>"

\* cleanupEmptyRows looks at the lines i+1 .. i+4 behind a <tr> line.
RowLookAhead == 4

\* cleanupEmptyRows, the look-ahead loop from line j up to line last.
RECURSIVE HasEmptyValue(_, _, _)
HasEmptyValue(lines, j, last) ==
  IF j > last \/ j > Len(lines)
  THEN FALSE
  ELSE IF ContainsEmptyValue(lines[j])
       THEN TRUE
       ELSE IF Contains(lines[j], "</tr>")
            THEN FALSE
            ELSE HasEmptyValue(lines, j + 1, last)

\* cleanupEmptyRows, the loop over the lines from line i on: the lines it
\* appends to cleaned.
RECURSIVE CleanLines(_, _, _)
CleanLines(lines, i, skipUntilEndTr) ==
  IF i > Len(lines)
  THEN <<>>
  ELSE LET line == lines[i]
           hasEmptyValue ==
             /\ Contains(line, "<tr>")
             /\ HasEmptyValue(lines, i + 1, i + RowLookAhead)
       IN IF hasEmptyValue
          THEN CleanLines(lines, i + 1, TRUE)
          ELSE IF skipUntilEndTr
               THEN CleanLines(lines, i + 1, ~Contains(line, "</tr>"))
               ELSE <<line>> \o CleanLines(lines, i + 1, FALSE)

\* The markers cleanupEmptyRows deletes wherever they are left.
LeftoverMarkers ==
  << "<!-- {{- if show_details -}} -->",
     "<!-- {{- if host -}} -->",
     "<!-- {{- end }}{{ if original_uri -}} -->",
     "<!-- {{- end }}{{ if forwarded_for -}} -->",
     "<!-- {{- end }}{{ if request_id -}} -->",
     "<!-- {{- end -}} -->",
     "<!-- {{- if l10n_enabled -}} -->" >>

RECURSIVE RemoveMarkers(_, _)
RemoveMarkers(result, markers) ==
  IF markers = <<>> \/ result = <<>>
  THEN result
  ELSE RemoveMarkers(ReplaceAll(result, Head(markers), <<>>), Tail(markers))

\* A cleanupEmptyRows that deletes the markers and keeps every row.
cleanupEmptyRows_MarkersOnly(html) == RemoveMarkers(html, LeftoverMarkers)

cleanupEmptyRows(html) ==
  Join(CleanLines(Split(RemoveMarkers(html, LeftoverMarkers)), 1, FALSE))

\* Handler.RenderErrorPage of the string-replacement renderer: the page for
\* the clock reading now and the order the range over the replacements took.
RenderErrorPageText(template, data, now, order) ==
  cleanupEmptyRows(renderTemplate(template, FillDefaults(data, now), order))

\* ---- RenderErrorPage over templates and data

\* A table row of the details table: label cell and value cell on lines of
\* their own.
Row(label, placeholder) ==
  << "<tr>", "\n", "<td class=\"name\">", label, "</td>", "\n",
     "<td class=\"value\">", placeholder, "</td>", "\n", "</tr>", "\n" >>

\* The four rows of the details table, between the markers given.
Rows(open, chain1, chain2, chain3, close) ==
  open \o Row("Host", "{{ host }}")
    \o chain1 \o Row("Original URI", "{{ original_uri }}")
    \o chain2 \o Row("Forwarded for", "{{ forwarded_for }}")
    \o chain3 \o Row("Request ID", "{{ request_id }}")
    \o close

PlainRows == Rows(<<>>, <<>>, <<>>, <<>>, <<>>)

\* The rows with the if/end chain that cleanupEmptyRows knows.
ChainedRows ==
  Rows(<<"<!-- {{- if host -}} -->", "\n">>,
       <<"<!-- {{- end }}{{ if original_uri -}} -->", "\n">>,
       <<"<!-- {{- end }}{{ if forwarded_for -}} -->", "\n">>,
       <<"<!-- {{- end }}{{ if request_id -}} -->", "\n">>,
       <<"<!-- {{- end -}} -->", "\n">>)

\* A page whose details table stands in a show_details block spelled as the
\* k-th pattern.
DetailDoc(k, rows) ==
  << "<h1>", "{{ code }}", " ", "{{ message }}", "</h1>", "\n",
     Patterns("show_details")[k].start, "\n", "<table>", "\n" >>
    \o rows
    \o << "</table>", "\n", Patterns("show_details")[k].end, "\n",
          "<footer>", "{{ nowUnix }}", "</footer>" >>

DetailDocs ==
  {DetailDoc(k, PlainRows) : k \in DOMAIN Patterns("show_details")}
    \cup {DetailDoc(1, ChainedRows)}

\* The auto-refresh block with its meta tag.
RefreshBlock ==
  <<RefreshStart, "\n", "<meta http-equiv=\"refresh\">", "\n", RefreshEnd,
    "\n">>

\* Pages with the auto-refresh block: alone, before and behind a block of
\* another condition that ends with the same end marker, and on one line.
RefreshDocs ==
  { <<"<head>", "\n">> \o RefreshBlock \o <<"</head>", "\n", "{{ code }}">>,
    RefreshBlock
      \o <<"<!-- {{ if show_details }} -->", "{{ host }}",
           "<!-- {{ end }} -->">>,
    <<"<!-- {{ if l10n_enabled }} -->", "{{ l10nScript }}",
      "<!-- {{ end }} -->", "\n">> \o RefreshBlock,
    <<"<head>", RefreshStart, "<meta http-equiv=\"refresh\">", RefreshEnd,
      "</head>">> }

\* A page of placeholders only.
PlaceholderDoc ==
  << "{{ code }}", "|", "{{ message }}", "|", "{{ description }}", "|",
     "{{ host }}", "|", "{{ request_id }}", "|", "{{ nowUnix }}", "|",
     "{{ message | escape }}" >>

\* Status codes: the 4xx and 5xx classes, and one outside them.
Codes == (400..599) \cup {200}

FieldValues(value) == {"", value}

\* Every code, on the pages with an auto-refresh block.
CodeSweep ==
  {[template |-> t, data |-> TemplateData(code, TRUE, "a.test", "", "", "")] :
     t \in RefreshDocs, code \in Codes}

\* Every combination of empty and non-empty context fields, on the pages
\* with a details table.
FieldSweep ==
  {[template |-> t, data |-> TemplateData(503, sd, host, uri, xff, rid)] :
     t \in DetailDocs, sd \in BOOLEAN,
     host \in FieldValues("a.test"), uri \in FieldValues("/x?y=1"),
     xff \in FieldValues("10.0.0.1"), rid \in FieldValues("req-1")}

\* Message, description and timestamp supplied by the caller or left to
\* RenderErrorPage.
DefaultsSweep ==
  {[template |-> PlaceholderDoc,
    data |-> [TemplateData(code, FALSE, "a.test", "", "", "req-1")
                EXCEPT !.Message = message, !.Description = description,
                       !.NowUnix = nowUnix]] :
     code \in {404, 503, 599},
     message \in {"", "Gone fishing", "Tom & <b>"},
     description \in {"", "Back soon."},
     nowUnix \in {0, 1600000000}}

\* Field values that are themselves placeholders, with the timestamp given.
TokenSweep ==
  {[template |-> PlaceholderDoc,
    data |-> [TemplateData(503, FALSE, host, "", "", rid)
                EXCEPT !.NowUnix = 1600000000]] :
     host \in {"a.test", "{{ code }}", "{{ request_id }}"},
     rid \in {"", "req-1", "{{ host }}"}}

RenderInputs == CodeSweep \cup FieldSweep \cup DefaultsSweep \cup TokenSweep

RenderCall(arg) == Call("RenderErrorPage", arg) @@ [again |-> Nil]

InitRender ==
  /\ FilterInit
  /\ eval \in {RenderCall(arg) : arg \in RenderInputs}

\* A render: the clock reading and the iteration order are the run's.
ApplyRenderErrorPage ==
  /\ eval.fn = "RenderErrorPage" /\ ~eval.done
  /\ \E now \in NowValues,
        order \in IterationOrders(Len(replacements(eval.arg.data))) :
       eval' = Return(eval,
                 [page |-> RenderErrorPageText(eval.arg.template,
                                               eval.arg.data, now, order),
                  data |-> FillDefaults(eval.arg.data, now),
                  clock |-> now])
  /\ UNCHANGED filterVars

\* A second render of the same template with equal data.
ApplyRenderErrorPageAgain ==
  /\ eval.fn = "RenderErrorPage" /\ eval.done /\ eval.again = Nil
  /\ \E now \in NowValues,
        order \in IterationOrders(Len(replacements(eval.arg.data))) :
       eval' = [eval EXCEPT !.again =
                  [page |-> RenderErrorPageText(eval.arg.template,
                                                eval.arg.data, now, order)]]
  /\ UNCHANGED filterVars

NextRender ==
  \/ ApplyRenderErrorPage
  \/ ApplyRenderErrorPageAgain

SpecRender == InitRender /\ [][NextRender]_vars

\* The status codes whose page refreshes itself.
AutoRefreshCodes == {408, 425, 429, 500, 502, 503, 504}

\* C16: on a page with an auto-refresh block, the rendered page holds the
\* meta tag of the block exactly when the code is one of 408, 425, 429, 500,
\* 502, 503, 504; for every other code, catalogued or not, the tag and both
\* markers are gone.
C16_AutoRefreshIffListedCode ==
  (eval.done /\ eval.arg.template \in RefreshDocs) =>
    /\ Contains(eval.out.page, "<meta http-equiv=\"refresh\">")
         <=> eval.arg.data.Code \in AutoRefreshCodes
    /\ ~Contains(eval.out.page, RefreshStart)

\* C16 witness: the page for 425 holds the meta tag.
C16_Witness ==
  /\ eval.done /\ eval.arg.template \in RefreshDocs
  /\ eval.arg.data.Code = 425
  /\ Contains(eval.out.page, "<meta http-equiv=\"refresh\">")

\* The context fields of the details table: label and value.
DetailFields(data) ==
  { [label |-> "Host", value |-> data.Host],
    [label |-> "Original URI", value |-> data.OriginalURI],
    [label |-> "Forwarded for", value |-> data.ForwardedFor],
    [label |-> "Request ID", value |-> data.RequestID] }

\* The tokens between the markers of the show_details block of DetailDocs,
\* line breaks aside, and the values its placeholders stand for.
DetailContent(data) ==
  ({ChainedRows[i] : i \in DOMAIN ChainedRows}
     \cup {"<table>", "</table>"}
     \cup {f.value : f \in DetailFields(data)})
    \ {"\n", ""}

CountOf(s, token) == Cardinality({i \in DOMAIN s : s[i] = token})

\* The page holds a value cell with exactly this value.
HasValueCell(page, value) ==
  \E i \in 1..(Len(page) - 2) :
    /\ page[i] = "<td class=\"value\">"
    /\ page[i + 1] = value
    /\ page[i + 2] = "</td>"

\* C17: on a page whose details table stands in a show_details block, the
\* render with ShowDetails false holds nothing of what the block encloses,
\* whichever context fields are set; the render with ShowDetails true holds
\* one table row, with label and value cell, for each context field whose
\* value is not empty, and no row, label or empty value cell for the others.
C17_DetailRowsForNonEmptyFields ==
  (eval.done /\ eval.arg.template \in DetailDocs) =>
    LET page == eval.out.page
        data == eval.arg.data
        shown == {f \in DetailFields(data) : f.value # ""}
    IN IF ~data.ShowDetails
       THEN \A i \in DOMAIN page : page[i] \notin DetailContent(data)
       ELSE /\ \A f \in DetailFields(data) :
                 /\ Contains(page, f.label) <=> f \in shown
                 /\ f \in shown => HasValueCell(page, f.value)
            /\ CountOf(page, "<tr>") = Cardinality(shown)
            /\ CountOf(page, "</tr>") = Cardinality(shown)
            /\ ~ContainsEmptyValue(page)

\* C17 witness: details shown on the page with the if/end chain, host and
\* request id set, the other two fields empty: two rows are left.
C17_Witness ==
  /\ eval.done /\ eval.arg.template = DetailDoc(1, ChainedRows)
  /\ eval.arg.data.ShowDetails
  /\ eval.arg.data.Host # "" /\ eval.arg.data.RequestID # ""
  /\ eval.arg.data.OriginalURI = "" /\ eval.arg.data.ForwardedFor = ""
  /\ HasValueCell(eval.out.page, eval.arg.data.Host)
  /\ HasValueCell(eval.out.page, eval.arg.data.RequestID)
  /\ CountOf(eval.out.page, "<tr>") = 2

\* C18: with NowUnix given, two renders of the same template with equal data
\* give the same page, also when a field value is itself a placeholder.
C18_RenderDeterministic ==
  (eval.done /\ eval.again # Nil /\ eval.arg.data.NowUnix # 0) =>
    eval.again.page = eval.out.page

\* The message RenderErrorPage is to show for the data of the call.
ExpectedMessage ==
  IF eval.arg.data.Message = ""
  THEN getStatusMessage(eval.arg.data.Code)
  ELSE eval.arg.data.Message

\* The description RenderErrorPage is to show for the data of the call.
ExpectedDescription ==
  IF eval.arg.data.Description = ""
  THEN getStatusDescription(eval.arg.data.Code)
  ELSE eval.arg.data.Description

\* C20: RenderErrorPage takes Message and Description from the catalog and
\* NowUnix from the clock exactly when the caller left them empty or zero;
\* what the caller supplied is kept, and the page shows these values in the
\* place of their placeholders.
C20_DefaultsOnlyWhenEmpty ==
  (eval.done /\ eval.arg \in DefaultsSweep) =>
    LET given == eval.arg.data
        used == eval.out.data
        page == eval.out.page
    IN /\ used.Message = ExpectedMessage
       /\ used.Description = ExpectedDescription
       /\ IF given.NowUnix = 0
          THEN used.NowUnix \in NowValues
          ELSE used.NowUnix = given.NowUnix
       /\ page =
            <<ToString(given.Code), "|">> \o Text(ExpectedMessage)
              \o <<"|">> \o Text(ExpectedDescription)
              \o <<"|", given.Host, "|", given.RequestID, "|",
                   ToString(used.NowUnix), "|">>
              \o htmlEscape(Text(ExpectedMessage))

\* C20 witness: the caller's message and timestamp are on the page for 599,
\* next to the catalog's description.
C20_Witness ==
  /\ eval.done /\ eval.arg \in DefaultsSweep
  /\ eval.arg.data.Code = 599
  /\ eval.arg.data.Message = "Gone fishing"
  /\ eval.arg.data.Description = ""
  /\ eval.arg.data.NowUnix = 1600000000
  /\ Contains(eval.out.page, "Gone fishing")
  /\ Contains(eval.out.page, "1600000000")
  /\ Contains(eval.out.page, getStatusDescription(599))

\* ------------------ internal/errorpages: preprocessTemplate, on bytes

\* Here a Go string is the sequence of its bytes.

HasPrefix(s, prefix) ==
  Len(s) >= Len(prefix) /\ SubSeq(s, 1, Len(prefix)) = prefix

HasSuffix(s, suffix) ==
  /\ Len(s) >= Len(suffix)
  /\ SubSeq(s, Len(s) - Len(suffix) + 1, Len(s)) = suffix

TrimPrefix(s, prefix) ==
  IF HasPrefix(s, prefix) THEN SubSeq(s, Len(prefix) + 1, Len(s)) ELSE s

TrimSuffix(s, suffix) ==
  IF HasSuffix(s, suffix) THEN SubSeq(s, 1, Len(s) - Len(suffix)) ELSE s

\* strings.TrimLeft(s, cutset)
TrimLeft(s, cutset) ==
  LET keep == {i \in DOMAIN s : s[i] \notin cutset}
  IN IF keep = {}
     THEN <<>>
     ELSE SubSeq(s, CHOOSE i \in keep : \A j \in keep : i <= j, Len(s))

\* strings.TrimRight(s, cutset)
TrimRight(s, cutset) ==
  LET keep == {i \in DOMAIN s : s[i] \notin cutset}
  IN IF keep = {}
     THEN <<>>
     ELSE SubSeq(s, 1, CHOOSE i \in keep : \A j \in keep : i >= j)

\* strings.Trim(s, cutset)
Trim(s, cutset) == TrimRight(TrimLeft(s, cutset), cutset)

TrimSpace(s) == Trim(s, {" ", "\t", "\n", "\r"})

\* strings.Index(s, substr) for a needle of several bytes: the position of
\* its first occurrence, 0 when there is none.
IndexOf(s, substr) ==
  LET hits == {i \in 1..(Len(s) - Len(substr) + 1) :
                 SubSeq(s, i, i + Len(substr) - 1) = substr}
  IN IF hits = {} THEN 0 ELSE CHOOSE i \in hits : \A j \in hits : i <= j

controlKeywords ==
  << <<"i", "f", " ">>,
     <<"e", "l", "s", "e", " ", "i", "f", " ">>,
     <<"e", "l", "s", "e">>,
     <<"e", "n", "d">>,
     <<"r", "a", "n", "g", "e", " ">>,
     <<"w", "i", "t", "h", " ">>,
     <<"b", "l", "o", "c", "k", " ">>,
     <<"d", "e", "f", "i", "n", "e", " ">>,
     <<"t", "e", "m", "p", "l", "a", "t", "e", " ">> >>

isControlKeyword(action) ==
  \E k \in DOMAIN controlKeywords :
    \/ action = TrimSpace(controlKeywords[k])
    \/ HasPrefix(action, controlKeywords[k])

\* containsOnlyDirectives, the loop over the actions of remaining.
RECURSIVE OnlyDirectivesLoop(_, _)
OnlyDirectivesLoop(remaining, found) ==
  IF Len(remaining) = 0
  THEN found
  ELSE LET idx == IndexOf(remaining, <<"{", "{">>)
           endIdx == IndexOf(SubSeq(remaining, idx, Len(remaining)),
                             <<"}", "}">>)
           close == idx + endIdx - 1
           action == TrimSpace(Trim(SubSeq(remaining, idx + 2, close - 1),
                                    {"-", " "}))
       IN IF idx = 0
          THEN found /\ TrimSpace(remaining) = <<>>
          ELSE IF TrimSpace(SubSeq(remaining, 1, idx - 1)) # <<>>
               THEN FALSE
               ELSE IF endIdx = 0
                    THEN FALSE
                    ELSE IF ~isControlKeyword(action)
                         THEN FALSE
                         ELSE OnlyDirectivesLoop(
                                SubSeq(remaining, close + 2, Len(remaining)),
                                TRUE)

containsOnlyDirectives(s) ==
  IF TrimSpace(s) = <<>>
  THEN FALSE
  ELSE OnlyDirectivesLoop(TrimSpace(s), FALSE)

ensureOuterTrimMarkers(s) ==
  LET s1 == IF HasPrefix(s, <<"{", "{">>) /\ ~HasPrefix(s, <<"{", "{", "-">>)
            THEN <<"{", "{", "-", " ">>
                   \o TrimLeft(SubSeq(s, 3, Len(s)), {" "})
            ELSE s
  IN IF HasSuffix(s1, <<"}", "}">>) /\ ~HasSuffix(s1, <<"-", "}", "}">>)
     THEN TrimRight(SubSeq(s1, 1, Len(s1) - 2), {" "})
            \o <<" ", "-", "}", "}">>
     ELSE s1

\* preprocessTemplate, the body of the loop: what becomes of one line.
PreprocessLine(line) ==
  LET trimmed == TrimSpace(line)
      html == TrimSpace(TrimSuffix(TrimPrefix(trimmed, <<"<", "!", "-", "-">>),
                                   <<"-", "-", ">">>))
      css == TrimSpace(TrimSuffix(TrimPrefix(trimmed, <<"/", "*">>),
                                  <<"*", "/">>))
      js == TrimSpace(TrimPrefix(trimmed, <<"/", "/">>))
  IN IF /\ HasPrefix(trimmed, <<"<", "!", "-", "-">>)
        /\ HasSuffix(trimmed, <<"-", "-", ">">>)
        /\ containsOnlyDirectives(html)
     THEN ensureOuterTrimMarkers(html)
     ELSE IF /\ HasPrefix(trimmed, <<"/", "*">>)
             /\ HasSuffix(trimmed, <<"*", "/">>)
             /\ containsOnlyDirectives(css)
          THEN ensureOuterTrimMarkers(css)
          ELSE IF /\ HasPrefix(trimmed, <<"/", "/">>)
                  /\ ~HasPrefix(trimmed, <<"/", "/", "/">>)
                  /\ containsOnlyDirectives(js)
               THEN ensureOuterTrimMarkers(js)
               ELSE line

preprocessTemplate(raw) ==
  LET lines == Split(raw)
  IN Join([i \in DOMAIN lines |-> PreprocessLine(lines[i])])

\* ------------------ preprocessTemplate and conditional evaluation on
\* ------------------ documents

MaxPad == 1

MaxResolvedLen == 3

\* The runs of blanks of a template line.
Pads == {[i \in 1..n |-> " "] : n \in 0..MaxPad}

\* The names an action of a template line carries: three directives, a
\* value, and a value whose name begins with the letters of a directive.
Directives == {<<"e", "n", "d">>, <<"e", "l", "s", "e">>, <<"i", "f", " ", "x">>}

ActionNames ==
  Directives
    \cup {<<"h", "o", "s", "t">>, <<"e", "n", "d", "p", "o", "i", "n", "t">>}

Action(name, pad, trimLeft, trimRight) ==
  (IF trimLeft THEN <<"{", "{", "-">> ELSE <<"{", "{">>)
    \o pad \o name \o pad
    \o (IF trimRight THEN <<"-", "}", "}">> ELSE <<"}", "}">>)

\* What a comment of a template holds, with the names of its actions and
\* whether it is actions and blanks only.
Inners ==
  {[text |-> Action(n, p, l, r), names |-> {n}, solely |-> TRUE] :
     n \in ActionNames, p \in Pads, l \in BOOLEAN, r \in BOOLEAN}
  \cup
  {[text |-> Action(n, <<" ">>, FALSE, FALSE) \o sep
               \o Action(m, <<" ">>, FALSE, FALSE),
    names |-> {n, m}, solely |-> (sep \in Pads)] :
     n \in ActionNames, m \in ActionNames, sep \in Pads \cup {<<"x">>}}
  \cup
  {[text |-> <<>>, names |-> {}, solely |-> FALSE],
   [text |-> <<"a">>, names |-> {}, solely |-> FALSE],
   [text |-> <<"{", "{", " ", "e", "n", "d">>, names |-> {<<"e", "n", "d">>},
    solely |-> FALSE]}

\* The documents preprocessTemplate is given: one line, and that line
\* between two others. A line is blanks, a comment skin around what the
\* comment holds, and text behind it or none; the skins are none, the
\* three of preprocessTemplate, the documentation comment of three slashes
\* and a skin inside a skin.
TemplateTexts ==
  LET Skins ==
        {[open |-> <<>>, close |-> <<>>],
         [open |-> <<"<", "!", "-", "-">>, close |-> <<"-", "-", ">">>],
         [open |-> <<"/", "*">>, close |-> <<"*", "/">>],
         [open |-> <<"/", "/">>, close |-> <<>>],
         [open |-> <<"/", "/", "/">>, close |-> <<>>],
         [open |-> <<"<", "!", "-", "-", "<", "!", "-", "-">>, close |-> <<"-", "-", ">", "-", "-", ">">>],
         [open |-> <<"/", "/", "/", "/">>, close |-> <<>>]}
      TemplateLines ==
        {[text |-> indent \o skin.open \o pad \o inner.text \o pad \o skin.close
                     \o trail,
          names |-> inner.names, solely |-> inner.solely,
          skin |-> skin.open, trail |-> trail] :
           indent \in Pads, skin \in Skins, pad \in Pads, inner \in Inners,
           trail \in {<<>>, <<" ", "x">>}}
  IN TemplateLines
       \cup {[line EXCEPT !.text = <<"a", "\n">> \o line.text \o <<"\n">>] :
               line \in TemplateLines}

\* Documents without a conditional marker, for the string-replacement
\* renderer, with the data of the call.
ResolvedInputs ==
  LET ResolvedTokens == {"a", "\n", "{{ host }}", "<tr>"}
      ResolvedDocs ==
        UNION {[1..n -> ResolvedTokens] : n \in 0..MaxResolvedLen}
  IN {[template |-> t,
       data |-> [TemplateData(code, details, "a.test", "", "", "")
                   EXCEPT !.L10nEnabled = l10n]] :
        t \in ResolvedDocs, code \in {404, 503}, details \in BOOLEAN,
        l10n \in BOOLEAN}

InitPreprocess ==
  /\ FilterInit
  /\ eval \in {Call("preprocessTemplate", arg) @@ [again |-> Nil] :
                 arg \in TemplateTexts}
            \cup {Call("processConditionals", arg) @@ [again |-> Nil] :
                    arg \in ResolvedInputs}

ApplyPreprocessTemplate ==
  /\ eval.fn = "preprocessTemplate" /\ ~eval.done
  /\ eval' = Return(eval, preprocessTemplate(eval.arg.text))
  /\ UNCHANGED filterVars

\* preprocessTemplate on what it returned.
ApplyPreprocessTemplateAgain ==
  /\ eval.fn = "preprocessTemplate" /\ eval.done /\ eval.again = Nil
  /\ eval' = [eval EXCEPT !.again = [text |-> preprocessTemplate(eval.out)]]
  /\ UNCHANGED filterVars

ApplyProcessConditionals ==
  /\ eval.fn = "processConditionals" /\ ~eval.done
  /\ eval' = Return(eval, processConditionals(eval.arg.template,
                                              eval.arg.data))
  /\ UNCHANGED filterVars

NextPreprocess ==
  \/ ApplyPreprocessTemplate
  \/ ApplyPreprocessTemplateAgain
  \/ ApplyProcessConditionals

SpecPreprocess == InitPreprocess /\ [][NextPreprocess]_vars


\* C19: preprocessTemplate returns a document whose actions name no
\* directive as it was given, preprocessTemplate returns its own output as
\* it was given, and conditional evaluation returns a document without a
\* conditional marker as it was given.
C19_ResolvedUnchanged ==
  /\ (/\ eval.fn = "preprocessTemplate" /\ eval.done
      /\ eval.arg.names \cap Directives = {})
       => eval.out = eval.arg.text
  /\ (eval.fn = "preprocessTemplate" /\ eval.done /\ eval.again # Nil)
       => eval.again.text = eval.out
  /\ (eval.fn = "processConditionals" /\ eval.done)
       => eval.out = eval.arg.template

\* The comment openers preprocessTemplate knows.
CommentOpeners ==
  {<<"<", "!", "-", "-">>, <<"/", "*">>, <<"/", "/">>}

\* C27: preprocessTemplate changes a line only when the line is one comment
\* and nothing else, and the comment holds only actions, each naming a
\* control keyword; a comment around a value such as host, or around an
\* action whose name only begins with the letters of a keyword, is returned
\* as it was.
C27_OnlyKeywordCommentsStripped ==
  (eval.fn = "preprocessTemplate" /\ eval.done
     /\ eval.out # eval.arg.text) =>
    /\ eval.arg.skin \in CommentOpeners
    /\ eval.arg.trail = <<>>
    /\ eval.arg.solely
    /\ eval.arg.names \subseteq Directives

\* C26: a template whose nesting of directives cannot be resolved, which
\* text/template refuses to parse, never makes the render for an
\* intercepted response fail: RenderErrorPage returns a page and the body
\* is replaced with it.
C26_UnresolvedTemplateStillRenders ==
  \A r \in Requests :
    (/\ phase[r] = "done" /\ calls[r].render > 0
     /\ errorPageHandler # Nil
     /\ errorPageHandler.templateText.raw.fault = "parse") =>
      /\ calls[r].replace = 1
      /\ rendered[r] # Nil

\* ------------------ getStatusMessage and getStatusDescription on their own

InitCatalog ==
  /\ FilterInit
  /\ eval \in {Call(fn, code) :
                 fn \in {"getStatusMessage", "getStatusDescription"},
                 code \in 100..599}

ApplyGetStatusMessage ==
  /\ eval.fn = "getStatusMessage" /\ ~eval.done
  /\ eval' = Return(eval, getStatusMessage(eval.arg))
  /\ UNCHANGED filterVars

ApplyGetStatusDescription ==
  /\ eval.fn = "getStatusDescription" /\ ~eval.done
  /\ eval' = Return(eval, getStatusDescription(eval.arg))
  /\ UNCHANGED filterVars

NextCatalog ==
  \/ ApplyGetStatusMessage
  \/ ApplyGetStatusDescription

SpecCatalog == InitCatalog /\ [][NextCatalog]_vars

\* C21: for every code from 100 to 599, getStatusMessage and
\* getStatusDescription return the text of the code's catalog entry when it
\* has one (404 is "Not Found"), and otherwise the client-error text for a
\* 4xx code and the server-error text for a 5xx code.
C21_CatalogOrClassFallback ==
  /\ (eval.fn = "getStatusMessage" /\ eval.done) =>
       /\ eval.arg \in DOMAIN messages => eval.out = messages[eval.arg]
       /\ eval.arg = 404 => eval.out = "Not Found"
       /\ (eval.arg \notin DOMAIN messages /\ eval.arg \div 100 = 4)
            => eval.out = "Client Error"
       /\ (eval.arg \notin DOMAIN messages /\ eval.arg \div 100 = 5)
            => eval.out = "Server Error"
  /\ (eval.fn = "getStatusDescription" /\ eval.done) =>
       /\ eval.arg \in DOMAIN descriptions
            => eval.out = descriptions[eval.arg]
       /\ eval.arg = 404
            => eval.out = "The requested resource could not be found."
       /\ (eval.arg \notin DOMAIN descriptions /\ eval.arg \div 100 = 4)
            => eval.out = "An error occurred while processing your request."
       /\ (eval.arg \notin DOMAIN descriptions /\ eval.arg \div 100 = 5)
            => eval.out =
                 "The server encountered an error while processing your request."

\* A code with a message entry and no description entry, looked up.
C21_Witness ==
  /\ eval.fn = "getStatusDescription" /\ eval.done
  /\ eval.arg = 418
  /\ eval.arg \in DOMAIN messages /\ eval.arg \notin DOMAIN descriptions
  /\ eval.out = "An error occurred while processing your request."

\* ------------------ config.Parse on the bytes of config.yaml

\* config.Parse, the loop over the lines.
RECURSIVE ParseTextLines(_, _)
ParseTextLines(lines, cfg) ==
  IF lines = <<>>
  THEN cfg
  ELSE LET line == TrimSpace(Head(lines))
           theme == TrimSpace(TrimPrefix(line, <<"t", "h", "e", "m", "e", ":">>))
           details == TrimSpace(TrimPrefix(line, <<"s", "h", "o", "w", "_", "d", "e", "t", "a", "i", "l", "s", ":">>))
           c1 == IF HasPrefix(line, <<"t", "h", "e", "m", "e", ":">>)
                 THEN [cfg EXCEPT !.Theme = theme]
                 ELSE cfg
           c2 == IF HasPrefix(line, <<"s", "h", "o", "w", "_", "d", "e", "t", "a", "i", "l", "s", ":">>)
                 THEN [c1 EXCEPT !.ShowDetails = (details = <<"t", "r", "u", "e">>)]
                 ELSE c1
       IN IF HasPrefix(line, <<"#">>) \/ line = <<>>
          THEN ParseTextLines(Tail(lines), cfg)
          ELSE ParseTextLines(Tail(lines), c2)

\* A config.Parse without a default theme.
ParseText_NoDefaultTheme(yamlContent) ==
  [cfg |-> ParseTextLines(Split(yamlContent),
                          [Theme |-> <<>>, ShowDetails |-> TRUE]),
   err |-> FALSE]

\* config.Parse, with yamlContent as bytes.
ParseText(yamlContent) ==
  [cfg |-> ParseTextLines(Split(yamlContent),
                          [Theme |-> <<"c", "a", "t", "s">>, ShowDetails |-> TRUE]),
   err |-> FALSE]

MaxConfigLines == 2

\* The config.yaml documents: up to MaxConfigLines lines, each with what
\* it is (a comment, an empty line, a line with neither key, a theme line,
\* a show_details line), with and without a blank before it.
ConfigTexts ==
  LET ConfigBodies ==
        {[text |-> <<"#">>, kind |-> "comment", value |-> <<>>],
         [text |-> <<"#", "t", "h", "e", "m", "e", ":", "d", "o", "g", "s">>, kind |-> "comment", value |-> <<>>],
         [text |-> <<>>, kind |-> "empty", value |-> <<>>],
         [text |-> <<"x">>, kind |-> "other", value |-> <<>>],
         [text |-> <<"t", "h", "e", "m", "e", "s", ":", "d", "o", "g", "s">>, kind |-> "other", value |-> <<>>],
         [text |-> <<"t", "h", "e", "m", "e", " ", ":", "d", "o", "g", "s">>, kind |-> "other", value |-> <<>>],
         [text |-> <<"s", "h", "o", "w", "_", "d", "e", "t", "a", "i", "l", "s">>, kind |-> "other", value |-> <<>>]}
        \cup
        {[text |-> <<"t", "h", "e", "m", "e", ":">> \o pad \o v \o pad,
          kind |-> "theme", value |-> v] :
           pad \in {<<>>, <<" ">>}, v \in {<<"d", "o", "g", "s">>, <<>>}}
        \cup
        {[text |-> <<"s", "h", "o", "w", "_", "d", "e", "t", "a", "i", "l", "s", ":">> \o pad \o v,
          kind |-> "show_details", value |-> v] :
           pad \in {<<>>, <<" ">>},
           v \in {<<"t", "r", "u", "e">>, <<"f", "a", "l", "s", "e">>, <<"T", "r", "u", "e">>}}
      ConfigTextLines ==
        {[body EXCEPT !.text = indent \o body.text] :
           body \in ConfigBodies, indent \in {<<>>, <<" ">>}}
  IN UNION {[1..n -> ConfigTextLines] : n \in 0..MaxConfigLines}

InitParse ==
  /\ FilterInit
  /\ eval \in {Call("Parse", lines) : lines \in ConfigTexts}

ApplyParse ==
  /\ eval.fn = "Parse" /\ ~eval.done
  /\ eval' = Return(eval,
               ParseText(Join([i \in DOMAIN eval.arg |-> eval.arg[i].text])))
  /\ UNCHANGED filterVars

NextParse == ApplyParse

SpecParse == InitParse /\ [][NextParse]_vars

\* The value of the last line of the given kind, when there is one.
LinesOf(lines, kind) == {i \in DOMAIN lines : lines[i].kind = kind}

LastOf(lines, kind) ==
  lines[CHOOSE i \in LinesOf(lines, kind) :
          \A j \in LinesOf(lines, kind) : j <= i].value

\* C22: config.Parse returns theme "cats" when no line gives theme and
\* show_details true when no line gives show_details; otherwise what the
\* last such line gives, so that comments, empty lines and lines starting
\* with neither key change nothing; Parse never returns an error.
C22_DefaultsAndIgnoredLines ==
  (eval.fn = "Parse" /\ eval.done) =>
    /\ ~eval.out.err
    /\ eval.out.cfg.Theme =
         IF LinesOf(eval.arg, "theme") = {}
         THEN <<"c", "a", "t", "s">>
         ELSE LastOf(eval.arg, "theme")
    /\ eval.out.cfg.ShowDetails =
         IF LinesOf(eval.arg, "show_details") = {}
         THEN TRUE
         ELSE LastOf(eval.arg, "show_details") = <<"t", "r", "u", "e">>

\* A document of a comment naming a theme and a show_details line that is
\* not "true", parsed.
C22_Witness ==
  /\ eval.fn = "Parse" /\ eval.done
  /\ Len(eval.arg) = 2
  /\ eval.arg[1].kind = "comment" /\ eval.arg[1].text # <<"#">>
  /\ eval.arg[2].kind = "show_details"
  /\ eval.arg[2].value = <<"T", "r", "u", "e">>
  /\ eval.out.cfg.Theme = <<"c", "a", "t", "s">>
  /\ ~eval.out.cfg.ShowDetails

\* ------------------ processIfBlock and processComplexRefreshConditional on
\* ------------------ documents with blocks

\* A block of a document: spelling k of Patterns with its condition;
\* spelling 0 is the auto-refresh block.
Open(b) == IF b.k = 0 THEN RefreshStart ELSE Patterns(b.c)[b.k].start

Close(b) == IF b.k = 0 THEN RefreshEnd ELSE Patterns(b.c)[b.k].end

\* The documents: the tokens, the block the call is about, whether the
\* markers are well nested, and for each opening marker that has one the
\* position of its end marker (match). A block alone, a block in a block,
\* blocks three deep, two blocks in a block, the same block twice, and an
\* opening marker without its end before a block.
BlockDocs ==
  LET OuterBlocks ==
        {[k |-> 0, c |-> "refresh"]}
        \cup {[k |-> k, c |-> "show_details"] : k \in 1..6}
      InnerBlocks ==
        {[k |-> k, c |-> c] : k \in 1..6, c \in {"show_details", "host"}}
  IN UNION {
     {[doc |-> <<"a", Open(o), "b", Close(o), "c">>,
       block |-> o, wellNested |-> TRUE, match |-> (2 :> 4)] :
        o \in OuterBlocks},
     {[doc |-> <<"a", Open(o), "b", Open(i), "c", Close(i), "d", Close(o), "e">>,
       block |-> o, wellNested |-> TRUE, match |-> (2 :> 8) @@ (4 :> 6)] :
        o \in OuterBlocks, i \in InnerBlocks},
     {[doc |-> <<"a", Open(o), Open(i), "b", Open(j), "c", Close(j), Close(i),
                 "d", Close(o)>>,
       block |-> o, wellNested |-> TRUE,
       match |-> (2 :> 10) @@ (3 :> 8) @@ (5 :> 7)] :
        o \in OuterBlocks, i \in InnerBlocks, j \in InnerBlocks},
     {[doc |-> <<Open(o), "a", Open(i), "b", Close(i), "c", Open(j), "d",
                 Close(j), "e", Close(o)>>,
       block |-> o, wellNested |-> TRUE,
       match |-> (1 :> 11) @@ (3 :> 5) @@ (7 :> 9)] :
        o \in OuterBlocks, i \in InnerBlocks, j \in InnerBlocks},
     {[doc |-> <<"a", Open(o), "b", Close(o), "c", Open(o), "d", Close(o), "e">>,
       block |-> o, wellNested |-> TRUE, match |-> (2 :> 4) @@ (6 :> 8)] :
        o \in OuterBlocks},
     {[doc |-> <<"a", Open(o), "b", Open(o), "c", Close(o), "d">>,
       block |-> o, wellNested |-> FALSE, match |-> (4 :> 6)] :
        o \in OuterBlocks} }

\* processIfBlock, the block its first pass resolves: the positions of the
\* opening marker and of the end marker chosen for it, from the k-th
\* pattern on; 0 and 0 when it resolves none.
RECURSIVE ChosenFrom(_, _, _)
ChosenFrom(result, condition, k) ==
  IF k > Len(Patterns(condition))
  THEN [start |-> 0, end |-> 0]
  ELSE LET p == Patterns(condition)[k]
           startIdx == Index(result, 1, {p.start})
           endIdx == FindEnd(result, p.end, startIdx + 1, FALSE, 1)
       IN IF startIdx = 0 \/ endIdx = 0
          THEN ChosenFrom(result, condition, k + 1)
          ELSE [start |-> startIdx, end |-> endIdx]

\* processComplexRefreshConditional, the block it resolves.
ChosenRefresh(template) ==
  LET startIdx == Index(template, 1, {RefreshStart})
      endIdx == Index(template, startIdx, {RefreshEnd})
  IN IF startIdx = 0 \/ endIdx = 0
     THEN [start |-> 0, end |-> 0]
     ELSE [start |-> startIdx, end |-> endIdx]

BlockCall(arg, show) ==
  Call(IF arg.block.k = 0
       THEN "processComplexRefreshConditional"
       ELSE "processIfBlock",
       arg @@ [show |-> show])

InitIfBlock ==
  /\ FilterInit
  /\ eval \in {BlockCall(arg, show) : arg \in BlockDocs, show \in BOOLEAN}

ApplyProcessIfBlock ==
  /\ eval.fn = "processIfBlock" /\ ~eval.done
  /\ eval' = Return(eval,
               [page |-> processIfBlock(eval.arg.doc, eval.arg.block.c,
                                        eval.arg.show),
                chosen |-> ChosenFrom(eval.arg.doc, eval.arg.block.c, 1)])
  /\ UNCHANGED filterVars

ApplyProcessComplexRefreshConditional ==
  /\ eval.fn = "processComplexRefreshConditional" /\ ~eval.done
  /\ eval' = Return(eval,
               [page |-> processComplexRefreshConditional(eval.arg.doc,
                                                          eval.arg.show),
                chosen |-> ChosenRefresh(eval.arg.doc)])
  /\ UNCHANGED filterVars

NextIfBlock ==
  \/ ApplyProcessIfBlock
  \/ ApplyProcessComplexRefreshConditional

SpecIfBlock == InitIfBlock /\ [][NextIfBlock]_vars

\* C23: in processIfBlock, on a well-nested document the end marker chosen
\* for an opening marker is the end marker that matches it by nesting
\* depth, for each spelling of the markers.
C23_ChosenEndIsMatchingEnd ==
  (eval.fn = "processIfBlock" /\ eval.done /\ eval.arg.wellNested) =>
    /\ eval.out.chosen.start \in DOMAIN eval.arg.match
    /\ eval.out.chosen.end = eval.arg.match[eval.out.chosen.start]

\* The opening markers of a condition, in every spelling.
OpensOf(c) ==
  IF c = "refresh"
  THEN {RefreshStart}
  ELSE {Patterns(c)[k].start : k \in DOMAIN Patterns(c)}

\* The tokens of doc at the positions outside drop, in order.
RECURSIVE Without(_, _, _)
Without(doc, drop, i) ==
  IF i > Len(doc)
  THEN <<>>
  ELSE (IF i \in drop THEN <<>> ELSE <<doc[i]>>) \o Without(doc, drop, i + 1)

\* C24: resolving the one block of a condition in a document changes only
\* that block: with the flag true the two markers go and the enclosed text,
\* nested blocks included, stays as it is; with the flag false the markers
\* and all they enclose go; the text before and after stays.
C24_OnlyTheBlockChanges ==
  (/\ eval.done
   /\ eval.fn \in {"processIfBlock", "processComplexRefreshConditional"}
   /\ eval.arg.wellNested
   /\ Cardinality({i \in DOMAIN eval.arg.doc :
                     eval.arg.doc[i] \in OpensOf(eval.arg.block.c)}) = 1) =>
    LET doc == eval.arg.doc
        start == CHOOSE i \in DOMAIN doc : doc[i] \in OpensOf(eval.arg.block.c)
        end == eval.arg.match[start]
    IN eval.out.page =
         IF eval.arg.show
         THEN Without(doc, {start, end}, 1)
         ELSE Without(doc, start..end, 1)

\* C25: when processIfBlock returns, the result holds no opening marker of
\* the condition that is followed by its end marker, however many blocks
\* the document had and also when an unmatched opening marker of the
\* condition stood before them.
C25_NoMatchedBlockRemains ==
  (eval.fn = "processIfBlock" /\ eval.done) =>
    LET page == eval.out.page
        ps == Patterns(eval.arg.block.c)
    IN ~\E k \in DOMAIN ps, i \in DOMAIN page, j \in DOMAIN page :
          i < j /\ page[i] = ps[k].start /\ page[j] = ps[k].end

\* ------------------ cleanupEmptyRows on rendered tables

MaxItems == 2

\* The tables of a rendered page: up to MaxItems items between <table>
\* and </table>. An item is a row on four lines, on two lines or on one
\* line, with a value or none, or a line of text; each with its lines and
\* whether it is a row with an empty value cell.
RenderedTables ==
  LET NameCell == <<"<td class=\"name\">", "Host", "</td>">>
      ValueCell(value) == <<"<td class=\"value\">">> \o value \o <<"</td>">>
      TableItems ==
        {[lines |-> << <<"<tr>">>, NameCell, ValueCell(v), <<"</tr>">> >>,
          empty |-> (v = <<>>)] : v \in {<<>>, <<"a.test">>}}
        \cup
        {[lines |-> << <<"<tr>">> \o NameCell, ValueCell(v) \o <<"</tr>">> >>,
          empty |-> (v = <<>>)] : v \in {<<>>, <<"a.test">>}}
        \cup
        {[lines |-> << <<"<tr>">> \o NameCell \o ValueCell(v) \o <<"</tr>">> >>,
          empty |-> (v = <<>>)] : v \in {<<>>, <<"a.test">>}}
        \cup
        {[lines |-> << <<"note">> >>, empty |-> FALSE]}
  IN UNION {[1..n -> TableItems] : n \in 0..MaxItems}

\* The lines of the items from the i-th on that keep holds, in order.
RECURSIVE LinesOfItems(_, _, _)
LinesOfItems(items, keep, i) ==
  IF i > Len(items)
  THEN <<>>
  ELSE (IF i \in keep THEN items[i].lines ELSE <<>>)
         \o LinesOfItems(items, keep, i + 1)

\* The page of a table: the items between the lines around the table.
PageOf(items, keep) ==
  Join(<< <<"<table>">> >> \o LinesOfItems(items, keep, 1)
         \o << <<"</table>">>, <<"after">> >>)

InitCleanup ==
  /\ FilterInit
  /\ eval \in {Call("cleanupEmptyRows", items) : items \in RenderedTables}

ApplyCleanupEmptyRows ==
  /\ eval.fn = "cleanupEmptyRows" /\ ~eval.done
  /\ eval' = Return(eval,
               cleanupEmptyRows(PageOf(eval.arg, DOMAIN eval.arg)))
  /\ UNCHANGED filterVars

NextCleanup == ApplyCleanupEmptyRows

SpecCleanup == InitCleanup /\ [][NextCleanup]_vars

\* C28: cleanupEmptyRows removes exactly the rows whose value cell is
\* empty, every line of them, and keeps every other line in order: rows
\* with a value next to an empty one, rows on one line, and the text after
\* the last row.
C28_ExactlyEmptyRowsRemoved ==
  (eval.fn = "cleanupEmptyRows" /\ eval.done) =>
    eval.out = PageOf(eval.arg, {i \in DOMAIN eval.arg : ~eval.arg[i].empty})

\* ------------------ the status text from response headers to the renderer

\* OnHttpResponseHeaders keeps the status text and intercepts when
\* IsErrorStatus accepts it; OnHttpResponseBody then parses the text kept.
InitStatusCode ==
  /\ FilterInit
  /\ eval \in {Call("OnHttpResponseBody", status) : status \in StatusInputs}

ApplyParseStatusCode ==
  /\ eval.fn = "OnHttpResponseBody" /\ ~eval.done
  /\ IsErrorStatusBytes(eval.arg)
  /\ eval' = Return(eval, [Code |-> ParseStatusCode(eval.arg, 0)])
  /\ UNCHANGED filterVars

NextStatusCode == ApplyParseStatusCode

SpecStatusCode == InitStatusCode /\ [][NextStatusCode]_vars

\* C29: for every intercepted response the code handed to the renderer lies
\* in 400..599 and is the number the captured status text spells.
C29_CodeInErrorRange ==
  (eval.fn = "OnHttpResponseBody" /\ eval.done) =>
    /\ eval.out.Code \in 400..599
    /\ (\A i \in DOMAIN eval.arg : eval.arg[i] \in Digits) =>
         eval.out.Code = 100 * DigitVal(eval.arg[1])
                           + 10 * DigitVal(eval.arg[2]) + DigitVal(eval.arg[3])

====
